---- MODULE Spec2Model ----
(***************************************************************************)
(* A model of parts of roc-toolkit: audio::Watchdog (watchdog.cpp), the    *)
(* depacketizer behind it, and the test receiver that reads the frames.    *)
(*                                                                         *)
(* Numbers.  seqnum_t is 16 bits wide and is held as 0 .. 65535.           *)
(* timestamp_t is 32 bits wide; the model checker's integers are 32-bit    *)
(* signed, so a timestamp is held as the integer with the same 32 bits     *)
(* read as two's complement: u for u < 2^31 and u - 2^32 otherwise.        *)
(* Arithmetic on timestamps is done in 16-bit halves and never leaves      *)
(* the 32-bit range.                                                       *)
(***************************************************************************)
EXTENDS Integers, Sequences, FiniteSets, TLC

VARIABLES
    wd,             \* the Watchdog object: timeout_, countdown_, has_packets_, alive_, prev_
    queue,          \* the packets the underlying reader (reader_) has buffered, oldest first
    stopped,        \* the sender has stopped: no packet arrives any more
    op,             \* the last call made: "none", "arrive", "stop", "update", "read"
    ret_update,     \* what update() returned, when it was the last call (TRUE otherwise)
    ret_read,       \* what read() returned, when it was the last call (NULL otherwise)
    misses,         \* consecutive update() calls made, while alive, without an observed packet
    death,          \* why the watchdog died: "none", "timeout", "jump"
    last_returned,  \* the last packet read() returned to its caller (NULL: none yet)
    observed,       \* a read() returned a packet since the previous update()
    latest,         \* the returned packet with the latest seqnum in wraparound order
    dp,             \* the Depacketizer object: packet_, offset, timestamp_, first_packet_
    frame,          \* the samples of the last frame read, each with its stream timestamp
    status,         \* what the last roc_receiver_read() returned
    rx,             \* the test receiver: wait_for_signal, prev_sample, failed
    nframes,        \* frames read so far
    sent,           \* packets the sender has delivered in order (lossless stream)
    ss,             \* the SenderSession object: config_, its stages, audio_writer_, num_sources_
    ss_op,          \* the last call made on the session: name, arguments, result, panic
    ha,             \* the HeapAllocator instances: state, num_allocations_, calls counted
    panic_on_leak_, \* HeapAllocator::panic_on_leak_ (static)
    ha_op,          \* the last call made on the allocators: name, instance, panic
    pump,           \* the Pump object and the position of run(): current_source, n_bufs_, stop_
    pump_log,       \* the calls run() made on the sources and the sink in its last iteration
    pump_io,        \* frames read, frames written, iterations made
    mt,             \* one allocator shared by threads: the object, where each thread is, panic
    delivered,      \* the packets reader_.read() handed to the watchdog, in order
    returned        \* the packets Watchdog::read() returned, in order

chain == <<dp, frame, status, rx, nframes, sent>>

session == <<ss, ss_op>>

heap == <<ha, panic_on_leak_, ha_op, mt>>

pumping == <<pump, pump_log, pump_io>>

passed == <<delivered, returned>>

others == <<session, heap, pumping, passed>>

receiver == <<wd, queue, stopped, op, ret_update, ret_read, misses, death, last_returned,
              observed, latest, chain>>

vars == <<wd, queue, stopped, op, ret_update, ret_read, misses, death, last_returned,
          observed, latest, chain, others>>

----------------------------------------------------------------------------
(* Bounds of the model. *)

MaxTimeout == 2
MaxQueue == 2
MaxPackets == 3         \* packets of the sender's stream
PacketSamples == 2      \* samples per packet
FrameSize == 3          \* samples per frame read
MaxFrames == 3          \* frames read in a run
SampleLimit == 6        \* 1.0 in units of the test's sample step
MaxSent == 5            \* packets of a lossless stream
MaxCalls == 2           \* create_*_pipeline calls that a session survives
MaxIndex == 3           \* source indexes asked of on_get_sending_source: 0 .. MaxIndex
MaxAllocators == 2      \* HeapAllocator instances of the process
MaxAllocations == 2     \* allocate() calls on one instance
MaxThreads == 3         \* threads that share one HeapAllocator
MaxSharedAllocations == 3   \* allocate() calls on the shared instance
MaxDelivered == 3       \* packets handed to the watchdog while both sequences are recorded
MaxIterations == 4      \* iterations of the loop of Pump::run

----------------------------------------------------------------------------
(* Integer widths. *)

INT32_MAX == 2147483647
INT32_MIN == -2147483647 - 1

(* A null pointer (IPacketConstPtr holding nothing). *)
NULL == [null |-> TRUE]

(* ROC_SUBTRACT(packet::signed_seqnum_t, a, b): (int16_t)(a - b). *)
SEQ_SUBTRACT(a, b) == (((a - b) + 32768) % 65536) - 32768

(* ROC_IS_BEFORE(packet::signed_seqnum_t, a, b): (int16_t)(a - b) < 0. *)
SEQ_IS_BEFORE(a, b) == SEQ_SUBTRACT(a, b) < 0

(* ROC_SUBTRACT(packet::signed_timestamp_t, a, b): (int32_t)(a - b), computed in  *)
(* 16-bit halves with a borrow from the low half.                                 *)
TS_SUBTRACT(a, b) ==
    LET dlo == (a % 65536) - (b % 65536)
        dhi == (a \div 65536) - (b \div 65536) + (dlo \div 65536)
    IN  (((dhi + 32768) % 65536) - 32768) * 65536 + (dlo % 65536)

(* The values the negation of the most negative int can leave behind: it overflows *)
(* (undefined behaviour), so a build may wrap it back to INT32_MIN or treat it as  *)
(* a large positive value.                                                          *)
NegateOverflow == {INT32_MIN, INT32_MAX}

(* ROC_ABS(a): a < 0 ? -a : a, evaluated in int.  An int16_t operand is promoted, *)
(* so 32768 is exact; for a == INT32_MIN the result is ub, one of NegateOverflow.  *)
ROC_ABS(a, ub) ==
    IF a = INT32_MIN THEN ub
    ELSE IF a < 0 THEN -a ELSE a

(* Configured maxima. *)
ROC_CONFIG_MAX_SN_JUMP == 100
ROC_CONFIG_MAX_TS_JUMP == 32000

----------------------------------------------------------------------------
(* Packets the underlying reader can deliver: <seqnum, timestamp> pairs that   *)
(* follow each other in order, across the wrap points, late, exactly at and    *)
(* just beyond the jump maxima, and at the most negative distances.            *)

Pkt(sn, ts) == [seqnum |-> sn, timestamp |-> ts]

Packets ==
    { Pkt(0, 0), Pkt(1, 320), Pkt(65535, -320),
      Pkt(100, 32000), Pkt(101, 320), Pkt(2, 32001),
      Pkt(32768, 0), Pkt(3, INT32_MIN) }

----------------------------------------------------------------------------
(* Watchdog::Watchdog *)
Watchdog(timeout) ==
    [ timeout_     |-> timeout,
      countdown_   |-> timeout,
      has_packets_ |-> FALSE,
      alive_       |-> TRUE,
      prev_        |-> NULL ]

(* Watchdog::update with the zero test made before the decrement: the watchdog *)
(* dies one tick late.                                                          *)
Watchdog_update_late(w) ==
    IF ~w.alive_
    THEN [self |-> w, ret |-> FALSE]
    ELSE IF w.has_packets_
    THEN [self |-> [w EXCEPT !.countdown_ = w.timeout_, !.has_packets_ = FALSE],
          ret  |-> TRUE]
    ELSE IF w.countdown_ = 0
    THEN [self |-> [w EXCEPT !.alive_ = FALSE], ret |-> FALSE]
    ELSE [self |-> [w EXCEPT !.countdown_ = w.countdown_ - 1, !.has_packets_ = FALSE],
          ret  |-> TRUE]

(* Watchdog::update with the test "countdown_ <= 1" after the decrement in place *)
(* of the zero test: the watchdog dies one tick early.                           *)
Watchdog_update_early(w) ==
    IF ~w.alive_
    THEN [self |-> w, ret |-> FALSE]
    ELSE IF w.has_packets_
    THEN [self |-> [w EXCEPT !.countdown_ = w.timeout_, !.has_packets_ = FALSE],
          ret  |-> TRUE]
    ELSE LET c == IF w.countdown_ > 0 THEN w.countdown_ - 1 ELSE w.countdown_
         IN  IF c <= 1
             THEN [self |-> [w EXCEPT !.countdown_ = c, !.alive_ = FALSE], ret |-> FALSE]
             ELSE [self |-> [w EXCEPT !.countdown_ = c, !.has_packets_ = FALSE],
                   ret  |-> TRUE]

(* Watchdog::update without "has_packets_ = false": one packet is observed for good. *)
Watchdog_update_keeps_flag(w) ==
    IF ~w.alive_
    THEN [self |-> w, ret |-> FALSE]
    ELSE IF w.has_packets_
    THEN [self |-> [w EXCEPT !.countdown_ = w.timeout_], ret |-> TRUE]
    ELSE LET c == IF w.countdown_ > 0 THEN w.countdown_ - 1 ELSE w.countdown_
         IN  IF c = 0
             THEN [self |-> [w EXCEPT !.countdown_ = c, !.alive_ = FALSE], ret |-> FALSE]
             ELSE [self |-> [w EXCEPT !.countdown_ = c], ret |-> TRUE]

(* Watchdog::update without the early return for a dead watchdog. *)
Watchdog_update_no_alive_check(w) ==
    IF w.has_packets_
    THEN [self |-> [w EXCEPT !.countdown_ = w.timeout_, !.has_packets_ = FALSE],
          ret  |-> TRUE]
    ELSE LET c == IF w.countdown_ > 0 THEN w.countdown_ - 1 ELSE w.countdown_
         IN  IF c = 0
             THEN [self |-> [w EXCEPT !.countdown_ = c, !.alive_ = FALSE], ret |-> FALSE]
             ELSE [self |-> [w EXCEPT !.countdown_ = c, !.has_packets_ = FALSE],
                   ret  |-> TRUE]

(* Watchdog::update with the zero test made only after a decrement: a watchdog *)
(* with timeout 0 never times out.                                             *)
Watchdog_update_zero_never_dies(w) ==
    IF ~w.alive_
    THEN [self |-> w, ret |-> FALSE]
    ELSE IF w.has_packets_
    THEN [self |-> [w EXCEPT !.countdown_ = w.timeout_, !.has_packets_ = FALSE],
          ret  |-> TRUE]
    ELSE IF w.countdown_ > 0 /\ w.countdown_ - 1 = 0
    THEN [self |-> [w EXCEPT !.countdown_ = 0, !.alive_ = FALSE], ret |-> FALSE]
    ELSE [self |-> [w EXCEPT !.countdown_ = IF w.countdown_ > 0
                                            THEN w.countdown_ - 1 ELSE w.countdown_,
                             !.has_packets_ = FALSE],
          ret  |-> TRUE]

(* Watchdog::update: the object afterwards and the value returned. *)
Watchdog_update(w) ==
    IF ~w.alive_
    THEN [self |-> w, ret |-> FALSE]
    ELSE IF w.has_packets_
    THEN [self |-> [w EXCEPT !.countdown_ = w.timeout_, !.has_packets_ = FALSE],
          ret  |-> TRUE]
    ELSE LET c == IF w.countdown_ > 0 THEN w.countdown_ - 1 ELSE w.countdown_
         IN  IF c = 0
             THEN [self |-> [w EXCEPT !.countdown_ = c, !.alive_ = FALSE], ret |-> FALSE]
             ELSE [self |-> [w EXCEPT !.countdown_ = c, !.has_packets_ = FALSE],
                   ret  |-> TRUE]

(* Watchdog::detect_jump_ with prev_ replaced by every accepted packet. *)
detect_jump_always_replace(w, next, ub) ==
    LET sn_dist == SEQ_SUBTRACT(w.prev_.seqnum, next.seqnum)
        ts_dist == TS_SUBTRACT(w.prev_.timestamp, next.timestamp)
    IN  IF w.prev_ # NULL /\ ROC_ABS(sn_dist, ub) > ROC_CONFIG_MAX_SN_JUMP
        THEN [self |-> w, ret |-> TRUE]
        ELSE IF w.prev_ # NULL /\ ROC_ABS(ts_dist, ub) > ROC_CONFIG_MAX_TS_JUMP
        THEN [self |-> w, ret |-> TRUE]
        ELSE [self |-> [w EXCEPT !.prev_ = next], ret |-> FALSE]

(* Watchdog::detect_jump_ with the seqnum distance taken without wraparound. *)
detect_jump_plain_distance(w, next, ub) ==
    LET sn_dist == w.prev_.seqnum - next.seqnum
        ts_dist == TS_SUBTRACT(w.prev_.timestamp, next.timestamp)
    IN  IF w.prev_ # NULL /\ ROC_ABS(sn_dist, ub) > ROC_CONFIG_MAX_SN_JUMP
        THEN [self |-> w, ret |-> TRUE]
        ELSE IF w.prev_ # NULL /\ ROC_ABS(ts_dist, ub) > ROC_CONFIG_MAX_TS_JUMP
        THEN [self |-> w, ret |-> TRUE]
        ELSE IF w.prev_ = NULL \/ SEQ_IS_BEFORE(w.prev_.seqnum, next.seqnum)
        THEN [self |-> [w EXCEPT !.prev_ = next], ret |-> FALSE]
        ELSE [self |-> w, ret |-> FALSE]

(* Watchdog::detect_jump_ with the order test turned round: prev_ is replaced *)
(* by the packets that are not after it.                                      *)
detect_jump_inverted_order(w, next, ub) ==
    LET sn_dist == SEQ_SUBTRACT(w.prev_.seqnum, next.seqnum)
        ts_dist == TS_SUBTRACT(w.prev_.timestamp, next.timestamp)
    IN  IF w.prev_ # NULL /\ ROC_ABS(sn_dist, ub) > ROC_CONFIG_MAX_SN_JUMP
        THEN [self |-> w, ret |-> TRUE]
        ELSE IF w.prev_ # NULL /\ ROC_ABS(ts_dist, ub) > ROC_CONFIG_MAX_TS_JUMP
        THEN [self |-> w, ret |-> TRUE]
        ELSE IF w.prev_ = NULL \/ SEQ_IS_BEFORE(next.seqnum, w.prev_.seqnum)
        THEN [self |-> [w EXCEPT !.prev_ = next], ret |-> FALSE]
        ELSE [self |-> w, ret |-> FALSE]

(* Watchdog::detect_jump_: the object afterwards and the value returned. *)
detect_jump_(w, next, ub) ==
    LET sn_dist == SEQ_SUBTRACT(w.prev_.seqnum, next.seqnum)
        ts_dist == TS_SUBTRACT(w.prev_.timestamp, next.timestamp)
    IN  IF w.prev_ # NULL /\ ROC_ABS(sn_dist, ub) > ROC_CONFIG_MAX_SN_JUMP
        THEN [self |-> w, ret |-> TRUE]
        ELSE IF w.prev_ # NULL /\ ROC_ABS(ts_dist, ub) > ROC_CONFIG_MAX_TS_JUMP
        THEN [self |-> w, ret |-> TRUE]
        ELSE IF w.prev_ = NULL \/ SEQ_IS_BEFORE(w.prev_.seqnum, next.seqnum)
        THEN [self |-> [w EXCEPT !.prev_ = next], ret |-> FALSE]
        ELSE [self |-> w, ret |-> FALSE]

(* Watchdog::read without the early return for a dead watchdog. *)
Watchdog_read_no_alive_check(w, packet, ub) ==
    IF packet = NULL
    THEN [self |-> w, ret |-> NULL, pulled |-> TRUE]
    ELSE LET j == detect_jump_(w, packet, ub)
         IN  IF j.ret
             THEN [self |-> [j.self EXCEPT !.alive_ = FALSE], ret |-> NULL, pulled |-> TRUE]
             ELSE [self |-> [j.self EXCEPT !.has_packets_ = TRUE], ret |-> packet,
                   pulled |-> TRUE]

(* Watchdog::read with has_packets_ set before the jump test. *)
Watchdog_read_marks_before_check(w, packet, ub) ==
    IF ~w.alive_
    THEN [self |-> w, ret |-> NULL, pulled |-> FALSE]
    ELSE IF packet = NULL
    THEN [self |-> w, ret |-> NULL, pulled |-> TRUE]
    ELSE LET j == detect_jump_([w EXCEPT !.has_packets_ = TRUE], packet, ub)
         IN  IF j.ret
             THEN [self |-> [j.self EXCEPT !.alive_ = FALSE], ret |-> NULL, pulled |-> TRUE]
             ELSE [self |-> j.self, ret |-> packet, pulled |-> TRUE]

(* Watchdog::read returning the reference packet in place of the packet read. *)
Watchdog_read_returns_reference(w, packet, ub) ==
    IF ~w.alive_
    THEN [self |-> w, ret |-> NULL, pulled |-> FALSE]
    ELSE IF packet = NULL
    THEN [self |-> w, ret |-> NULL, pulled |-> TRUE]
    ELSE LET j == detect_jump_(w, packet, ub)
         IN  IF j.ret
             THEN [self |-> [j.self EXCEPT !.alive_ = FALSE], ret |-> NULL, pulled |-> TRUE]
             ELSE [self |-> [j.self EXCEPT !.has_packets_ = TRUE], ret |-> j.self.prev_,
                   pulled |-> TRUE]

(* Watchdog::read, given what reader_.read() returns to it: the object afterwards, *)
(* the value returned, and whether reader_.read() was called.                      *)
Watchdog_read(w, packet, ub) ==
    IF ~w.alive_
    THEN [self |-> w, ret |-> NULL, pulled |-> FALSE]
    ELSE IF packet = NULL
    THEN [self |-> w, ret |-> NULL, pulled |-> TRUE]
    ELSE LET j == detect_jump_(w, packet, ub)
         IN  IF j.ret
             THEN [self |-> [j.self EXCEPT !.alive_ = FALSE], ret |-> NULL, pulled |-> TRUE]
             ELSE [self |-> [j.self EXCEPT !.has_packets_ = TRUE], ret |-> packet,
                   pulled |-> TRUE]

----------------------------------------------------------------------------
(* The underlying packet reader: reader_.read() returns the oldest buffered packet, *)
(* or NULL when nothing is buffered.                                                *)
reader_read(q) == IF q = <<>> THEN NULL ELSE Head(q)
reader_rest(q) == IF q = <<>> THEN q ELSE Tail(q)

----------------------------------------------------------------------------
(* The sender's stream.  Packet k carries PacketSamples samples from timestamp   *)
(* StreamTs + k * PacketSamples on; the stream starts just below the 16-bit and  *)
(* 32-bit wrap points.  The sample sent at a timestamp follows from where the    *)
(* stream started: the sender starts at one sample step and advances by          *)
(* increment_sample_value.                                                       *)

StreamSeq == 65535
StreamTs == -3

(* (uint32_t)(t + n) *)
TsAdd(t, n) == TS_SUBTRACT(t, -n)

Min(a, b) == IF a < b THEN a ELSE b

(* The element of a one-element set: { e(x) : x \in {v} } computes v once. *)
Only(S) == CHOOSE x \in S : TRUE

(* increment_sample_value, in units of the sample step. *)
increment_sample_value(v) == IF (v + 1) + 1 > SampleLimit THEN 1 ELSE v + 1

SenderSample(t) == (TS_SUBTRACT(t, StreamTs) % (SampleLimit - 1)) + 1

SenderPacket(k) == Pkt((StreamSeq + k) % 65536, TsAdd(StreamTs, k * PacketSamples))

(* A packet of the same stream from far ahead, beyond both jump maxima. *)
FarPacket ==
    Pkt((StreamSeq + 2 * ROC_CONFIG_MAX_SN_JUMP) % 65536,
        TsAdd(StreamTs, 2 * ROC_CONFIG_MAX_TS_JUMP))

SenderPackets == {SenderPacket(k) : k \in 0..(MaxPackets - 1)} \cup {FarPacket}

(* A payload decoder that ignores the position inside the packet. *)
payload_decoder_read_first(packet, i) == SenderSample(packet.timestamp)

(* The payload decoder: sample i of a packet. *)
payload_decoder_read(packet, i) == SenderSample(TsAdd(packet.timestamp, i))

----------------------------------------------------------------------------
(* Depacketizer::Depacketizer *)
Depacketizer ==
    [ packet_       |-> NULL,
      offset        |-> 0,      \* samples of packet_ already decoded
      timestamp_    |-> 0,      \* the next-timestamp cursor, defined once started
      first_packet_ |-> TRUE ]

(* Depacketizer::started *)
started(d) == ~d.first_packet_

(* A sample of a frame: its value, and its stream timestamp when the stream has started. *)
Sample(v, stamped, ts) == [v |-> v, stamped |-> stamped, ts |-> ts]

(* Depacketizer::read_missing_samples_: n samples of silence; the cursor moves *)
(* once the stream has started.                                                *)
read_missing_samples_(st, n) ==
    [st EXCEPT
        !.out = @ \o [i \in 1..n |->
                         IF started(st.dp)
                         THEN Sample(0, TRUE, TsAdd(st.dp.timestamp_, i - 1))
                         ELSE Sample(0, FALSE, 0)],
        !.dp.timestamp_ = IF started(st.dp) THEN TsAdd(@, n) ELSE @]

(* Depacketizer::read_packet_samples_: n samples decoded from packet_. *)
read_packet_samples_(st, n) ==
    [st EXCEPT
        !.out = @ \o [i \in 1..n |->
                         Sample(payload_decoder_read(st.dp.packet_, st.dp.offset + i - 1),
                                TRUE, TsAdd(st.dp.timestamp_, i - 1))],
        !.dp.timestamp_ = TsAdd(@, n),
        !.dp.offset = @ + n]

(* Depacketizer::update_packet_ that restarts the cursor at every packet it *)
(* fetches, stale or not.                                                  *)
update_packet_resyncs(st) ==
    IF st.dp.packet_ # NULL /\ st.dp.offset < PacketSamples
    THEN st
    ELSE Only({
           Only({
             IF r.ret = NULL
             THEN [s1 EXCEPT !.dp.packet_ = NULL, !.dp.offset = 0]
             ELSE [s1 EXCEPT !.dp.packet_ = r.ret, !.dp.offset = 0,
                             !.dp.timestamp_ = r.ret.timestamp,
                             !.dp.first_packet_ = FALSE]
             : s1 \in {[st EXCEPT !.wd = r.self,
                                  !.q = IF r.pulled THEN reader_rest(@) ELSE @,
                                  !.got = @ \/ r.ret # NULL]}})
           : r \in {Watchdog_read(st.wd, reader_read(st.q), st.ub)}})

(* Depacketizer::update_packet_ / read_packet_: when no packet is held or the held *)
(* one is exhausted, fetch the next from the reader (the watchdog); the first      *)
(* packet sets the cursor, a packet that starts before the cursor is stale and is  *)
(* dropped.  st carries the depacketizer, the watchdog and its reader, the samples *)
(* written so far, and the drop count.                                             *)
RECURSIVE update_packet_(_)
update_packet_(st) ==
    IF st.dp.packet_ # NULL /\ st.dp.offset < PacketSamples
    THEN st
    ELSE Only({
           Only({
             IF r.ret = NULL
             THEN [s1 EXCEPT !.dp.packet_ = NULL, !.dp.offset = 0]
             ELSE IF s1.dp.first_packet_
             THEN [s1 EXCEPT !.dp.packet_ = r.ret, !.dp.offset = 0,
                             !.dp.timestamp_ = r.ret.timestamp,
                             !.dp.first_packet_ = FALSE]
             ELSE IF TS_SUBTRACT(r.ret.timestamp, s1.dp.timestamp_) < 0
             THEN Only({update_packet_(s2) :
                        s2 \in {[s1 EXCEPT !.dp.packet_ = NULL, !.dp.offset = 0,
                                           !.n_dropped_packets = @ + 1]}})
             ELSE [s1 EXCEPT !.dp.packet_ = r.ret, !.dp.offset = 0]
             : s1 \in {[st EXCEPT !.wd = r.self,
                                  !.q = IF r.pulled THEN reader_rest(@) ELSE @,
                                  !.got = @ \/ r.ret # NULL]}})
           : r \in {Watchdog_read(st.wd, reader_read(st.q), st.ub)}})

(* Depacketizer::read_samples_, repeated by read_frame_ until the frame is full: *)
(* decode from the packet when the cursor is at its next sample, silence up to   *)
(* the packet when it is ahead, silence to the end of the frame when there is    *)
(* no packet.                                                                    *)
RECURSIVE read_samples_(_)
read_samples_(st) ==
    IF Len(st.out) >= FrameSize
    THEN st
    ELSE Only({
           LET room == FrameSize - Len(s.out)
           IN  IF s.dp.packet_ = NULL
               THEN read_missing_samples_(s, room)
               ELSE LET next_timestamp == TsAdd(s.dp.packet_.timestamp, s.dp.offset)
                        gap == TS_SUBTRACT(next_timestamp, s.dp.timestamp_)
                    IN  Only({read_samples_(s2) :
                              s2 \in {IF gap = 0
                                      THEN read_packet_samples_(
                                               s, Min(PacketSamples - s.dp.offset, room))
                                      ELSE read_missing_samples_(s, Min(gap, room))}})
           : s \in {update_packet_(st)}})

(* Depacketizer::read that fails when the reader has no packet for it. *)
Depacketizer_read_fails_when_empty(d, w, q, ub) ==
    Only({[st EXCEPT !.ret = st.dp.packet_ # NULL] :
          st \in {read_samples_([dp |-> d, wd |-> w, q |-> q, ub |-> ub, out |-> <<>>,
                                 got |-> FALSE, n_dropped_packets |-> 0, ret |-> TRUE])}})

(* Depacketizer::read: fills a frame of FrameSize samples and returns true. *)
Depacketizer_read(d, w, q, ub) ==
    read_samples_([dp |-> d, wd |-> w, q |-> q, ub |-> ub, out |-> <<>>,
                   got |-> FALSE, n_dropped_packets |-> 0, ret |-> TRUE])

(* roc_receiver_read: zero when the frame was read, negative otherwise. *)
roc_receiver_read(ok) == IF ok THEN 0 ELSE -1

----------------------------------------------------------------------------
(* The test receiver (Receiver::receive). *)

Receiver ==
    [wait_for_signal |-> TRUE, prev_sample |-> 1, identical_sample_num |-> 0,
     failed |-> FALSE]

is_zero_(v) == v = 0

(* The comparison loop of Receiver::receive over samples i .. of the frame. *)
RECURSIVE compare_(_, _, _)
compare_(r, buf, i) ==
    IF i > Len(buf)
    THEN r
    ELSE LET cur == buf[i]
             same == is_zero_(increment_sample_value(r.prev_sample) - cur)
             bad == ~same /\ ~is_zero_(r.prev_sample) /\ ~is_zero_(cur)
         IN  Only({compare_(r2, buf, i + 1) :
                   r2 \in {[r EXCEPT !.prev_sample = cur,
                                     !.identical_sample_num = IF same THEN @ + 1 ELSE @,
                                     !.failed = @ \/ bad]}})

(* The index of the first non-zero sample of the frame at or after i, or Len + 1. *)
RECURSIVE skip_zeros_(_, _)
skip_zeros_(buf, i) ==
    IF i <= Len(buf) /\ is_zero_(buf[i]) THEN skip_zeros_(buf, i + 1) ELSE i

(* One iteration of the loop of Receiver::receive, after roc_receiver_read: buf is *)
(* rx_buff, st the value roc_receiver_read returned.                               *)
Receiver_receive(r, buf, st) ==
    IF st # 0
    THEN [r EXCEPT !.failed = TRUE]
    ELSE IF r.wait_for_signal
    THEN LET i == skip_zeros_(buf, 1)
         IN  IF i <= Len(buf)
             THEN compare_([r EXCEPT !.wait_for_signal = FALSE, !.prev_sample = buf[i]],
                           buf, i + 1)
             ELSE r
    ELSE compare_(r, buf, 1)

----------------------------------------------------------------------------
(* SenderSession.  The session's configuration, as far as the pipeline's shape *)
(* depends on it.                                                              *)
Configs ==
    [ payload_known : BOOLEAN,   \* format_map_.format(config_.payload_type) is not NULL
      interleaving  : BOOLEAN,   \* config_.interleaving
      resampling    : BOOLEAN,   \* config_.resampling
      poisoning     : BOOLEAN,   \* config_.poisoning
      rates_differ  : BOOLEAN,   \* format->sample_spec.sample_rate() differs from the input's
      masks_differ  : BOOLEAN ]  \* format->sample_spec.channel_mask() differs from the input's

(* The stages of the session, by the name of the member that holds each. *)
Stages ==
    {"router_", "interleaver_", "fec_encoder_", "fec_writer_", "payload_encoder_",
     "packetizer_", "channel_mapper_writer_", "resampler_poisoner_", "resampler_",
     "resampler_writer_", "rtcp_composer_", "rtcp_session_"}

(* The stages whose construction can leave an object that is not valid(). *)
Validated ==
    {"interleaver_", "fec_writer_", "packetizer_", "channel_mapper_writer_",
     "resampler_writer_", "rtcp_session_"}

(* What can go wrong in one call: nothing, one allocation that returns NULL, one *)
(* constructor that leaves an invalid object, or one route the router refuses.   *)
NoFailure == [stage |-> "none", mode |-> "none"]

Failures ==
    {NoFailure}
        \cup [stage : Stages, mode : {"null"}]
        \cup [stage : Validated, mode : {"invalid"}]
        \cup [stage : {"add_route_source", "add_route_repair"}, mode : {"refused"}]

TransportFailures == {f \in Failures : f.stage \notin {"rtcp_composer_", "rtcp_session_"}}

ControlFailures == {f \in Failures : f.stage \in {"none", "rtcp_composer_", "rtcp_session_"}}

(* The endpoints a caller can pass. *)
Endpoint(name) == [endpoint |-> name]

(* A pointer to the stage held in member `field`, built by the call number gen: *)
(* the number of the call tells an object from the one a later call puts in the *)
(* same member.                                                                  *)
Ref(field, gen) == [field |-> field, gen |-> gen]

(* An object built by the call number gen, writing to `to` (NULL: to nothing). *)
Obj(gen, to) == [gen |-> gen, valid |-> TRUE, to |-> to, routes |-> {}]

(* SenderSession::SenderSession *)
SenderSession(config) ==
    [ config_                |-> config,
      audio_writer_          |-> NULL,
      num_sources_           |-> 0,
      router_                |-> NULL,
      interleaver_           |-> NULL,
      fec_encoder_           |-> NULL,
      fec_writer_            |-> NULL,
      payload_encoder_       |-> NULL,
      packetizer_            |-> NULL,
      channel_mapper_writer_ |-> NULL,
      resampler_poisoner_    |-> NULL,
      resampler_             |-> NULL,
      resampler_writer_      |-> NULL,
      rtcp_composer_         |-> NULL,
      rtcp_session_          |-> NULL,
      calls                  |-> 0,    \* create_transport_pipeline calls entered so far
      control_calls          |-> 0 ]   \* create_control_pipeline calls entered so far

(* field.reset(new ...): the member holds the new object, an invalid one, or NULL. *)
reset(s, field, obj, fail) ==
    [s EXCEPT ![field] = IF fail.stage # field THEN obj
                         ELSE IF fail.mode = "null" THEN NULL
                         ELSE [obj EXCEPT !.valid = FALSE]]

(* !member || !member->valid() *)
Unusable(s, field) == s[field] = NULL \/ ~s[field].valid

Returns(s, ret) == [self |-> s, ret |-> ret, panic |-> FALSE]

Panics(s) == [self |-> s, ret |-> FALSE, panic |-> TRUE]

(* SenderSession::create_transport_pipeline, last lines: the pipeline is handed out. *)
transport_finish_(s, awriter) == Returns([s EXCEPT !.audio_writer_ = awriter], TRUE)

(* The resampler stage with the poisoner put above the resampler writer, on the *)
(* frames the user writes.                                                      *)
transport_resampler_poisons_input(s, fail, awriter) ==
    IF ~(s.config_.resampling /\ s.config_.rates_differ)
    THEN transport_finish_(s, awriter)
    ELSE Only({
           IF s1.resampler_ = NULL
           THEN Returns(s1, FALSE)
           ELSE Only({
                  IF Unusable(s2, "resampler_writer_")
                  THEN Returns(s2, FALSE)
                  ELSE IF ~s2.config_.poisoning
                  THEN transport_finish_(s2, Ref("resampler_writer_", s2.calls))
                  ELSE Only({
                         IF s3.resampler_poisoner_ = NULL
                         THEN Returns(s3, FALSE)
                         ELSE transport_finish_(s3, Ref("resampler_poisoner_", s3.calls))
                         : s3 \in {reset(s2, "resampler_poisoner_",
                                         Obj(s2.calls, Ref("resampler_writer_", s2.calls)),
                                         fail)}})
                  : s2 \in {reset(s1, "resampler_writer_", Obj(s1.calls, awriter), fail)}})
           : s1 \in {reset(s, "resampler_", Obj(s.calls, NULL), fail)}})

(* SenderSession::create_transport_pipeline, the resampler: only when resampling is *)
(* enabled and the rates differ; a poisoner before it when poisoning is on.         *)
transport_resampler_(s, fail, awriter) ==
    IF ~(s.config_.resampling /\ s.config_.rates_differ)
    THEN transport_finish_(s, awriter)
    ELSE Only({
           IF s.config_.poisoning /\ s1.resampler_poisoner_ = NULL
           THEN Returns(s1, FALSE)
           ELSE Only({
                  IF s2.resampler_ = NULL
                  THEN Returns(s2, FALSE)
                  ELSE Only({
                         IF Unusable(s3, "resampler_writer_")
                         THEN Returns(s3, FALSE)
                         ELSE transport_finish_(s3, Ref("resampler_writer_", s3.calls))
                         : s3 \in {reset(s2, "resampler_writer_",
                                         Obj(s2.calls,
                                             IF s2.config_.poisoning
                                             THEN Ref("resampler_poisoner_", s2.calls)
                                             ELSE awriter),
                                         fail)}})
                  : s2 \in {reset(s1, "resampler_", Obj(s1.calls, NULL), fail)}})
           : s1 \in {IF s.config_.poisoning
                     THEN reset(s, "resampler_poisoner_", Obj(s.calls, awriter), fail)
                     ELSE s}})

(* The channel mapper stage without the check of what was constructed. *)
transport_channel_mapper_unchecked(s, fail, awriter) ==
    IF ~s.config_.masks_differ
    THEN transport_resampler_(s, fail, awriter)
    ELSE Only({transport_resampler_(s1, fail, Ref("channel_mapper_writer_", s1.calls)) :
               s1 \in {reset(s, "channel_mapper_writer_", Obj(s.calls, awriter), fail)}})

(* SenderSession::create_transport_pipeline, the channel mapper: only when the *)
(* channel masks differ.                                                       *)
transport_channel_mapper_(s, fail, awriter) ==
    IF ~s.config_.masks_differ
    THEN transport_resampler_(s, fail, awriter)
    ELSE Only({
           IF Unusable(s1, "channel_mapper_writer_")
           THEN Returns(s1, FALSE)
           ELSE transport_resampler_(s1, fail, Ref("channel_mapper_writer_", s1.calls))
           : s1 \in {reset(s, "channel_mapper_writer_", Obj(s.calls, awriter), fail)}})

(* SenderSession::create_transport_pipeline, the payload encoder and the packetizer. *)
transport_packetizer_(s, fail, pwriter) ==
    Only({
      IF s1.payload_encoder_ = NULL
      THEN Returns(s1, FALSE)
      ELSE Only({
             IF Unusable(s2, "packetizer_")
             THEN Returns(s2, FALSE)
             ELSE transport_channel_mapper_(s2, fail, Ref("packetizer_", s2.calls))
             : s2 \in {reset(s1, "packetizer_", Obj(s1.calls, pwriter), fail)}})
      : s1 \in {reset(s, "payload_encoder_", Obj(s.calls, NULL), fail)}})

(* SenderSession::create_transport_pipeline, the FEC encoder and writer, with the *)
(* interleaver below them when interleaving is on.                                *)
transport_fec_writer_(s, fail, pwriter) ==
    Only({
      IF s1.fec_encoder_ = NULL
      THEN Returns(s1, FALSE)
      ELSE Only({
             IF Unusable(s2, "fec_writer_")
             THEN Returns(s2, FALSE)
             ELSE transport_packetizer_(s2, fail, Ref("fec_writer_", s2.calls))
             : s2 \in {reset(s1, "fec_writer_", Obj(s1.calls, pwriter), fail)}})
      : s1 \in {reset(s, "fec_encoder_", Obj(s.calls, NULL), fail)}})

(* The repair branch with the FEC writer left out when interleaving is on. *)
transport_repair_without_fec(s, repair, fail, pwriter) ==
    IF repair = NULL
    THEN transport_packetizer_(s, fail, pwriter)
    ELSE IF fail.stage = "add_route_repair"
    THEN Returns(s, FALSE)
    ELSE Only({
           IF ~s1.config_.interleaving
           THEN transport_fec_writer_(s1, fail, pwriter)
           ELSE Only({
                  IF Unusable(s2, "interleaver_")
                  THEN Returns(s2, FALSE)
                  ELSE transport_packetizer_(s2, fail, Ref("interleaver_", s2.calls))
                  : s2 \in {reset(s1, "interleaver_", Obj(s1.calls, pwriter), fail)}})
           : s1 \in {[s EXCEPT !.router_.routes =
                                   @ \cup {[flag |-> "FlagRepair", to |-> repair]}]}})

(* SenderSession::create_transport_pipeline, the branch taken when a repair *)
(* endpoint is given.                                                       *)
transport_repair_(s, repair, fail, pwriter) ==
    IF repair = NULL
    THEN transport_packetizer_(s, fail, pwriter)
    ELSE IF fail.stage = "add_route_repair"
    THEN Returns(s, FALSE)
    ELSE Only({
           IF ~s1.config_.interleaving
           THEN transport_fec_writer_(s1, fail, pwriter)
           ELSE Only({
                  IF Unusable(s2, "interleaver_")
                  THEN Returns(s2, FALSE)
                  ELSE transport_fec_writer_(s2, fail, Ref("interleaver_", s2.calls))
                  : s2 \in {reset(s1, "interleaver_", Obj(s1.calls, pwriter), fail)}})
           : s1 \in {[s EXCEPT !.router_.routes =
                                   @ \cup {[flag |-> "FlagRepair", to |-> repair]}]}})

(* SenderSession::create_transport_pipeline, the format and the router. *)
transport_router_(s, source, repair, fail) ==
    IF ~s.config_.payload_known
    THEN Returns(s, FALSE)
    ELSE Only({
           IF s1.router_ = NULL
           THEN Returns(s1, FALSE)
           ELSE IF fail.stage = "add_route_source"
           THEN Returns(s1, FALSE)
           ELSE Only({transport_repair_(s2, repair, fail, Ref("router_", s2.calls)) :
                      s2 \in {[s1 EXCEPT !.router_.routes =
                                             @ \cup {[flag |-> "FlagAudio", to |-> source]}]}})
           : s1 \in {reset(s, "router_", Obj(s.calls, NULL), fail)}})

(* SenderSession::create_transport_pipeline *)
create_transport_pipeline(s, source, repair, fail) ==
    IF s.audio_writer_ # NULL \/ source = NULL
    THEN Panics(s)
    ELSE Only({transport_router_(s1, source, repair, fail) :
               s1 \in {[s EXCEPT !.num_sources_ = @ + 1 + (IF repair # NULL THEN 1 ELSE 0),
                                 !.calls = @ + 1]}})

(* SenderSession::create_control_pipeline *)
create_control_pipeline(s, control, fail) ==
    IF s.rtcp_session_ # NULL \/ control = NULL
    THEN Panics(s)
    ELSE Only({
           IF s1.rtcp_composer_ = NULL
           THEN Returns(s1, FALSE)
           ELSE Only({Returns(s2, ~Unusable(s2, "rtcp_session_")) :
                      s2 \in {reset(s1, "rtcp_session_", Obj(s1.control_calls, control),
                                    fail)}})
           : s1 \in {reset([s EXCEPT !.control_calls = @ + 1], "rtcp_composer_",
                           Obj(s.control_calls + 1, NULL), fail)}})

(* SenderSession::writer *)
writer(s) == s.audio_writer_

(* SenderSession::on_get_num_sources *)
on_get_num_sources(s) == s.num_sources_

(* SenderSession::on_get_sending_source *)
on_get_sending_source(s, source_index) ==
    IF source_index = 0 THEN [self |-> s, ret |-> 123, panic |-> FALSE]
    ELSE IF source_index = 1 THEN [self |-> s, ret |-> 456, panic |-> FALSE]
    ELSE [self |-> s, ret |-> 0, panic |-> TRUE]

----------------------------------------------------------------------------
(* HeapAllocator.  An instance is not constructed yet, live, or destroyed; with *)
(* num_allocations_ the model keeps the calls made on it.                       *)
Allocators == 1..MaxAllocators

NoAllocator ==
    [state |-> "none", num_allocations_ |-> 0, allocated |-> 0, deallocated |-> 0,
     before_enable |-> FALSE]

HeapResult(h, panic) == [self |-> h, panic |-> panic]

(* HeapAllocator::HeapAllocator *)
HeapAllocator == [NoAllocator EXCEPT !.state = "live"]

(* HeapAllocator::~HeapAllocator that panics on a leak whatever the flag. *)
HeapAllocator_destroy_ignores_flag(h, flag) ==
    IF h.num_allocations_ # 0
    THEN HeapResult(h, TRUE)
    ELSE HeapResult([h EXCEPT !.state = "destroyed"], FALSE)

(* HeapAllocator::~HeapAllocator; flag is panic_on_leak_. *)
HeapAllocator_destroy(h, flag) ==
    IF h.num_allocations_ # 0 /\ flag
    THEN HeapResult(h, TRUE)
    ELSE HeapResult([h EXCEPT !.state = "destroyed"], FALSE)

(* HeapAllocator::num_allocations *)
num_allocations(h) == h.num_allocations_

(* HeapAllocator::allocate *)
HeapAllocator_allocate(h) ==
    HeapResult([h EXCEPT !.num_allocations_ = @ + 1, !.allocated = @ + 1], FALSE)

(* HeapAllocator::deallocate without the check for an unpaired call. *)
HeapAllocator_deallocate_unchecked(h) ==
    HeapResult([h EXCEPT !.num_allocations_ = @ - 1, !.deallocated = @ + 1], FALSE)

(* HeapAllocator::deallocate with the check made after the decrement. *)
HeapAllocator_deallocate_checks_after(h) ==
    IF h.num_allocations_ - 1 < 0
    THEN HeapResult([h EXCEPT !.num_allocations_ = @ - 1], TRUE)
    ELSE HeapResult([h EXCEPT !.num_allocations_ = @ - 1, !.deallocated = @ + 1], FALSE)

(* HeapAllocator::deallocate *)
HeapAllocator_deallocate(h) ==
    IF h.num_allocations_ <= 0
    THEN HeapResult(h, TRUE)
    ELSE HeapResult([h EXCEPT !.num_allocations_ = @ - 1, !.deallocated = @ + 1], FALSE)

HeapCall(name, a, panic) == [name |-> name, a |-> a, panic |-> panic]

(* HeapAllocator::deallocate in the two steps other threads can come between: *)
(* the test of the counter, and the decrement with the delete[].  Each access *)
(* to num_allocations_ is taken to be atomic.                                 *)
deallocate_unpaired(h) == h.num_allocations_ <= 0

deallocate_release(h) == [h EXCEPT !.num_allocations_ = @ - 1, !.deallocated = @ + 1]

Threads == 1..MaxThreads

(* One live allocator used by every thread; "checked" is a thread in *)
(* deallocate() past the test.                                       *)
SharedAllocator ==
    [ h |-> HeapAllocator, pc |-> [t \in Threads |-> "idle"], panic |-> FALSE ]

----------------------------------------------------------------------------
(* Pump.  A valid pump, in run(): the object, the local current_source and the *)
(* position in run() ("loop": at the loop condition, "body": in an iteration,  *)
(* "exit": past the loop, "done": returned), with what ended the loop.         *)
DeviceStates == {"Active", "Idle", "Paused", "Broken"}

(* Pump::Pump, and the entry of Pump::run. *)
Pump(has_backup, oneshot) ==
    [ backup_source_ |-> has_backup,   \* backup_source_ is not NULL
      oneshot_       |-> oneshot,
      n_bufs_        |-> 0,
      stop_          |-> FALSE,
      current_source |-> "main",
      pc             |-> "loop",
      ended_by       |-> "none",      \* "stop", "eof" or "oneshot" once past the loop
      ret            |-> FALSE ]

(* A call run() makes: on the main source, the backup source or the sink. *)
PumpCall(call, on, ret) == [call |-> call, on |-> on, ret |-> ret]

Bool(b) == IF b THEN "true" ELSE "false"

(* A read that hands the frame to the sink whatever read() returned. *)
Pump_run_read_writes_unread(p, log, read_ok) ==
    [self |-> IF p.current_source = "main" THEN [p EXCEPT !.n_bufs_ = @ + 1] ELSE p,
     log  |-> log \o <<PumpCall("read", p.current_source, Bool(read_ok)),
                       PumpCall("write", "sink", "-"),
                       PumpCall("reclock", p.current_source, "-")>>]

(* A read that counts the frames of the backup in n_bufs_ as well. *)
Pump_run_read_counts_all(p, log, read_ok) ==
    IF ~read_ok
    THEN [self |-> IF p.current_source = "backup"
                   THEN [p EXCEPT !.current_source = "main"]
                   ELSE [p EXCEPT !.pc = "exit", !.ended_by = "eof"],
          log  |-> log \o <<PumpCall("read", p.current_source, "false")>>]
    ELSE [self |-> [p EXCEPT !.n_bufs_ = @ + 1],
          log  |-> log \o <<PumpCall("read", p.current_source, "true"),
                            PumpCall("write", "sink", "-"),
                            PumpCall("reclock", p.current_source, "-")>>]

(* A read whose EOF ends the loop whichever source it comes from. *)
Pump_run_read_eof_ends(p, log, read_ok) ==
    IF ~read_ok
    THEN [self |-> [p EXCEPT !.pc = "exit", !.ended_by = "eof"],
          log  |-> log \o <<PumpCall("read", p.current_source, "false")>>]
    ELSE [self |-> IF p.current_source = "main" THEN [p EXCEPT !.n_bufs_ = @ + 1] ELSE p,
          log  |-> log \o <<PumpCall("read", p.current_source, "true"),
                            PumpCall("write", "sink", "-"),
                            PumpCall("reclock", p.current_source, "-")>>]

(* Pump::run, the read of one iteration and what follows it. *)
Pump_run_read(p, log, read_ok) ==
    IF ~read_ok
    THEN [self |-> IF p.current_source = "backup"
                   THEN [p EXCEPT !.current_source = "main"]
                   ELSE [p EXCEPT !.pc = "exit", !.ended_by = "eof"],
          log  |-> log \o <<PumpCall("read", p.current_source, "false")>>]
    ELSE [self |-> IF p.current_source = "main" THEN [p EXCEPT !.n_bufs_ = @ + 1] ELSE p,
          log  |-> log \o <<PumpCall("read", p.current_source, "true"),
                            PumpCall("write", "sink", "-"),
                            PumpCall("reclock", p.current_source, "-")>>]

(* An iteration that switches to the backup source whether or not restart() *)
(* succeeded.                                                               *)
Pump_run_iteration_switches_anyway(p, state, resume_ok, restart_ok, read_ok) ==
    LET observed_state == <<PumpCall("state", "main", state)>>
    IN  IF state = "Active"
        THEN IF p.backup_source_ /\ p.current_source = "backup"
             THEN IF resume_ok
                  THEN Pump_run_read([p EXCEPT !.current_source = "main"],
                                     observed_state
                                         \o <<PumpCall("resume", "main", "true"),
                                              PumpCall("pause", "backup", "-")>>,
                                     read_ok)
                  ELSE Pump_run_read(p,
                                     observed_state
                                         \o <<PumpCall("resume", "main", "false")>>,
                                     read_ok)
             ELSE Pump_run_read(p, observed_state, read_ok)
        ELSE IF p.oneshot_ /\ p.n_bufs_ # 0
        THEN [self |-> [p EXCEPT !.pc = "exit", !.ended_by = "oneshot"], log |-> observed_state]
        ELSE IF p.backup_source_ /\ p.current_source # "backup"
        THEN Pump_run_read([p EXCEPT !.current_source = "backup"],
                           observed_state
                               \o <<PumpCall("restart", "backup", Bool(restart_ok))>>,
                           read_ok)
        ELSE Pump_run_read(p, observed_state, read_ok)

(* Pump::run, one iteration of the loop: state is what main_source_.state()   *)
(* returns, resume_ok, restart_ok and read_ok what the calls return if made.  *)
Pump_run_iteration(p, state, resume_ok, restart_ok, read_ok) ==
    LET observed_state == <<PumpCall("state", "main", state)>>
    IN  IF state = "Active"
        THEN IF p.backup_source_ /\ p.current_source = "backup"
             THEN IF resume_ok
                  THEN Pump_run_read([p EXCEPT !.current_source = "main"],
                                     observed_state
                                         \o <<PumpCall("resume", "main", "true"),
                                              PumpCall("pause", "backup", "-")>>,
                                     read_ok)
                  ELSE Pump_run_read(p,
                                     observed_state
                                         \o <<PumpCall("resume", "main", "false")>>,
                                     read_ok)
             ELSE Pump_run_read(p, observed_state, read_ok)
        ELSE IF p.oneshot_ /\ p.n_bufs_ # 0
        THEN [self |-> [p EXCEPT !.pc = "exit", !.ended_by = "oneshot"], log |-> observed_state]
        ELSE IF p.backup_source_ /\ p.current_source # "backup"
        THEN IF restart_ok
             THEN Pump_run_read([p EXCEPT !.current_source = "backup"],
                                observed_state
                                    \o <<PumpCall("restart", "backup", "true"),
                                         PumpCall("pause", "main", "-")>>,
                                read_ok)
             ELSE Pump_run_read(p,
                                observed_state
                                    \o <<PumpCall("restart", "backup", "false")>>,
                                read_ok)
        ELSE Pump_run_read(p, observed_state, read_ok)

(* Pump::stop *)
Pump_stop(p) == [p EXCEPT !.stop_ = TRUE]

(* Seqnum a is after seqnum b in wraparound order: 1 .. 2^15 steps ahead of it. *)
IsAfter(a, b) == ((a - b) % 65536) \in 1..32768

HistoryInit ==
    /\ delivered = <<>>
    /\ returned = <<>>
    /\ stopped = FALSE
    /\ op = "none"
    /\ ret_update = TRUE
    /\ ret_read = NULL
    /\ misses = 0
    /\ death = "none"
    /\ last_returned = NULL
    /\ observed = FALSE
    /\ latest = NULL

DefaultConfig ==
    [payload_known |-> TRUE, interleaving |-> FALSE, resampling |-> FALSE,
     poisoning |-> FALSE, rates_differ |-> FALSE, masks_differ |-> FALSE]

Call(name, arg, r) == [name |-> name, arg |-> arg, ret |-> r.ret, panic |-> r.panic]

NoCall == Call("none", NULL, Returns(NULL, FALSE))

SessionInit ==
    /\ ss = SenderSession(DefaultConfig)
    /\ ss_op = NoCall

HeapInit ==
    /\ ha = [a \in Allocators |-> NoAllocator]
    /\ panic_on_leak_ = FALSE
    /\ ha_op = HeapCall("none", 0, FALSE)
    /\ mt = SharedAllocator

(* What the pump has done so far: frames read and written, frames of main      *)
(* written, iterations made, reads and writes made after stop() was called,    *)
(* and whether main is paused (pause() called, no successful resume() since).  *)
PumpCounters ==
    [ n_read |-> 0, n_written |-> 0, n_main_written |-> 0, iterations |-> 0,
      reads_after_stop |-> 0, writes_after_stop |-> 0, main_paused |-> FALSE ]

PumpInit ==
    /\ pump = Pump(FALSE, FALSE)
    /\ pump_log = <<>>
    /\ pump_io = PumpCounters

ChainInit ==
    /\ dp = Depacketizer
    /\ frame = <<>>
    /\ status = 0
    /\ rx = Receiver
    /\ nframes = 0
    /\ sent = 0

Init ==
    /\ \E t \in 0..MaxTimeout : wd = Watchdog(t)
    /\ ChainInit
    /\ queue = <<>>
    /\ HistoryInit
    /\ SessionInit
    /\ HeapInit
    /\ PumpInit

(* The receiver left alone, for the runs that are about other objects. *)
ReceiverIdle ==
    /\ wd = Watchdog(0)
    /\ ChainInit
    /\ queue = <<>>
    /\ HistoryInit

(* A packet arrives from the network and is buffered by the underlying reader. *)
Arrive ==
    /\ ~stopped
    /\ Len(queue) < MaxQueue
    /\ \E p \in Packets : queue' = Append(queue, p)
    /\ op' = "arrive"
    /\ ret_update' = TRUE
    /\ ret_read' = NULL
    /\ UNCHANGED <<wd, stopped, misses, death, last_returned, observed, latest, chain, others>>

(* The sender stops: from now on nothing arrives. *)
Stop ==
    /\ ~stopped
    /\ stopped' = TRUE
    /\ op' = "stop"
    /\ ret_update' = TRUE
    /\ ret_read' = NULL
    /\ UNCHANGED <<wd, queue, misses, death, last_returned, observed, latest, chain, others>>

(* The pipeline calls Watchdog::update(). *)
Update ==
    LET r == Watchdog_update(wd)
    IN  /\ wd' = r.self
        /\ ret_update' = r.ret
        /\ op' = "update"
        /\ misses' = IF ~wd.alive_ THEN misses
                     ELSE IF observed THEN 0
                     ELSE misses + 1
        /\ observed' = FALSE
        /\ death' = IF wd.alive_ /\ ~r.self.alive_ THEN "timeout" ELSE death
        /\ ret_read' = NULL
        /\ UNCHANGED <<queue, stopped, last_returned, latest, chain, others>>

(* The pipeline calls Watchdog::read(). *)
Read ==
    \E ub \in NegateOverflow :
        LET r == Watchdog_read(wd, reader_read(queue), ub)
        IN  /\ wd' = r.self
            /\ queue' = IF r.pulled THEN reader_rest(queue) ELSE queue
            /\ ret_read' = r.ret
            /\ op' = "read"
            /\ death' = IF wd.alive_ /\ ~r.self.alive_ THEN "jump" ELSE death
            /\ last_returned' = IF r.ret # NULL THEN r.ret ELSE last_returned
            /\ observed' = (observed \/ r.ret # NULL)
            /\ latest' = IF r.ret # NULL
                             /\ (latest = NULL \/ IsAfter(r.ret.seqnum, latest.seqnum))
                          THEN r.ret ELSE latest
            /\ ret_update' = TRUE
            /\ UNCHANGED <<stopped, misses, chain, others>>

Next == Arrive \/ Update \/ Read

Spec == Init /\ [][Next]_vars

(* The same calls with both sides of the watchdog recorded: what reader_.read() *)
(* handed to it and what Watchdog::read() returned, for the first MaxDelivered  *)
(* packets.                                                                     *)
RecordedRead ==
    /\ Len(delivered) < MaxDelivered
    /\ \E ub \in NegateOverflow :
        LET r == Watchdog_read(wd, reader_read(queue), ub)
        IN  /\ wd' = r.self
            /\ queue' = IF r.pulled THEN reader_rest(queue) ELSE queue
            /\ delivered' = IF r.pulled /\ reader_read(queue) # NULL
                             THEN Append(delivered, reader_read(queue)) ELSE delivered
            /\ returned' = IF r.ret # NULL THEN Append(returned, r.ret) ELSE returned
            /\ ret_read' = r.ret
            /\ op' = "read"
            /\ death' = IF wd.alive_ /\ ~r.self.alive_ THEN "jump" ELSE death
            /\ last_returned' = IF r.ret # NULL THEN r.ret ELSE last_returned
            /\ observed' = (observed \/ r.ret # NULL)
            /\ latest' = IF r.ret # NULL
                             /\ (latest = NULL \/ IsAfter(r.ret.seqnum, latest.seqnum))
                          THEN r.ret ELSE latest
            /\ ret_update' = TRUE
            /\ UNCHANGED <<stopped, misses, chain, session, heap, pumping>>

RecordedArrive == Len(delivered) + Len(queue) < MaxDelivered /\ Arrive

RecordedNext == RecordedArrive \/ Update \/ RecordedRead

RecordedSpec == Init /\ [][RecordedNext]_vars

(* The same calls, with a sender that may stop for good, and a pipeline that keeps *)
(* calling update() (once per frame it reads).                                     *)
NextStop == Arrive \/ Stop \/ Update \/ Read

FairSpec == Init /\ [][NextStop]_vars /\ WF_vars(Update)

----------------------------------------------------------------------------
(* The receive chain: the sender's packets reach the reader in any order, with *)
(* loss and duplicates; the pipeline calls update() and reads frames through   *)
(* the depacketizer, which reads its packets from the watchdog; the test       *)
(* receiver checks every frame.                                                *)

SenderArrive ==
    /\ Len(queue) < MaxQueue
    /\ \E p \in SenderPackets : queue' = Append(queue, p)
    /\ op' = "arrive"
    /\ UNCHANGED <<wd, stopped, ret_update, ret_read, misses, death, last_returned,
                   observed, latest, chain, others>>

ReadFrame ==
    /\ nframes < MaxFrames
    /\ \E ub \in NegateOverflow :
          \E r \in {Depacketizer_read(dp, wd, queue, ub)} :
          \E buf \in {[i \in 1..Len(r.out) |-> r.out[i].v]} :
              /\ dp' = r.dp
              /\ wd' = r.wd
              /\ queue' = r.q
              /\ frame' = r.out
              /\ status' = roc_receiver_read(r.ret)
              /\ rx' = Receiver_receive(rx, buf, roc_receiver_read(r.ret))
              /\ observed' = (observed \/ r.got)
              /\ death' = IF wd.alive_ /\ ~r.wd.alive_ THEN "jump" ELSE death
    /\ nframes' = nframes + 1
    /\ op' = "frame"
    /\ UNCHANGED <<stopped, ret_update, ret_read, misses, last_returned, latest, sent, others>>

ChainNext == SenderArrive \/ Update \/ ReadFrame

ChainSpec == Init /\ [][ChainNext]_vars

----------------------------------------------------------------------------
(* A lossless stream: the sender's packets reach the reader in order, each once; *)
(* the receiver reads frames before the stream starts, and then whenever the     *)
(* reader holds the packets to fill one; the pipeline calls update() once per    *)
(* frame read.                                                                   *)

(* Samples the depacketizer can decode without waiting for the network. *)
Buffered ==
    (IF dp.packet_ # NULL THEN PacketSamples - dp.offset ELSE 0) + Len(queue) * PacketSamples

LosslessArrive ==
    /\ sent < MaxSent
    /\ Len(queue) < MaxQueue
    /\ queue' = Append(queue, SenderPacket(sent))
    /\ sent' = sent + 1
    /\ op' = "arrive"
    /\ UNCHANGED <<wd, stopped, ret_update, ret_read, misses, death, last_returned,
                   observed, latest, dp, frame, status, rx, nframes, others>>

LosslessRead ==
    /\ Buffered >= FrameSize \/ sent = 0
    /\ ReadFrame

LosslessUpdate ==
    /\ wd.has_packets_
    /\ Update

LosslessNext == LosslessArrive \/ LosslessRead \/ LosslessUpdate

LosslessSpec == Init /\ [][LosslessNext]_vars

----------------------------------------------------------------------------
(* What the claims are stated with. *)

UpdateStep == op' = "update"
ReadStep == op' = "read"

(* The magnitude of the signed distance modulo 2^16 between seqnums a and b exceeds m. *)
SnExceeds(a, b, m) ==
    LET d == (a - b) % 65536
    IN  (IF d > 32768 THEN 65536 - d ELSE d) > m

(* The signed distance modulo 2^32 between timestamps a and b is the most negative one. *)
TsMostNegative(a, b) == TS_SUBTRACT(a, b) = INT32_MIN

(* The magnitude of the signed distance modulo 2^32 between timestamps a and b exceeds m. *)
TsExceeds(a, b, m) ==
    LET d == TS_SUBTRACT(a, b)
    IN  d = INT32_MIN \/ d > m \/ d < -m

----------------------------------------------------------------------------
(* C1: with timeout T >= 1, an update() made while alive resets the countdown to T  *)
(* when a read() returned a packet since the previous update() and decrements it by *)
(* one otherwise; the watchdog dies in the update() that brings the countdown to    *)
(* zero, which is exactly the T-th consecutive update() without an observed packet, *)
(* never earlier, and that update() returns false.                                  *)
C1_CountdownAndTimeout ==
    /\ [][(UpdateStep /\ wd.alive_ /\ wd.timeout_ >= 1) =>
            /\ observed =>
                  wd'.countdown_ = wd.timeout_ /\ wd'.alive_ /\ ret_update'
            /\ ~observed =>
                  /\ wd'.countdown_ = wd.countdown_ - 1
                  /\ wd'.alive_ <=> wd'.countdown_ # 0
            /\ ~wd'.alive_ <=> misses' = wd.timeout_
            /\ ret_update' <=> wd'.alive_]_vars
    /\ []((wd.alive_ /\ wd.timeout_ >= 1) => misses < wd.timeout_)
    /\ []((death = "timeout" /\ wd.timeout_ >= 1) => misses = wd.timeout_)

C1_Witness ==
    /\ op = "update" /\ ~ret_update /\ death = "timeout"
    /\ wd.timeout_ = MaxTimeout /\ misses = MaxTimeout
    /\ last_returned # NULL

(* C2 as stated: for any timeout T, after T update() calls without an observed  *)
(* packet the next read() returns empty.                                         *)
C2_AnyTimeout ==
    [][(ReadStep /\ misses = wd.timeout_) => ret_read' = NULL]_vars

(* C2, amended: for any timeout T >= 1, after T consecutive update() calls without *)
(* an observed packet the next read() returns empty, also when the underlying      *)
(* reader has a packet available.                                                  *)
C2_PositiveTimeout ==
    [][(ReadStep /\ wd.timeout_ >= 1 /\ misses = wd.timeout_) =>
           ret_read' = NULL /\ queue' = queue]_vars

C2_Witness ==
    /\ op = "read" /\ ret_read = NULL
    /\ wd.timeout_ >= 1 /\ misses = wd.timeout_
    /\ queue # <<>>

(* C3 as stated: before T consecutive update() calls without a packet, a read()  *)
(* succeeds iff the underlying reader has a packet buffered.                      *)
C3_AnyPackets ==
    [][(ReadStep /\ misses < wd.timeout_) =>
           (ret_read' # NULL <=> queue # <<>>)]_vars

(* C3, amended: before T consecutive update() calls without a packet, and as long *)
(* as no packet read so far, this one included, triggered a jump, a read()        *)
(* succeeds iff the underlying reader has a packet buffered.                      *)
C3_NoJump ==
    [][(ReadStep /\ misses < wd.timeout_ /\ death' # "jump") =>
           /\ ret_read' # NULL <=> queue # <<>>
           /\ queue # <<>> => ret_read' = Head(queue)]_vars

C3_Witness ==
    /\ op = "read" /\ ret_read # NULL
    /\ misses >= 1 /\ misses < wd.timeout_

(* C4: death is sticky: once dead (by timeout or by a jump) the watchdog stays  *)
(* dead, every later read() returns empty and every later update() returns      *)
(* false, whatever arrives.                                                      *)
C4_DeadIsSticky ==
    [][~wd.alive_ =>
           /\ ~wd'.alive_
           /\ ReadStep => ret_read' = NULL
           /\ UpdateStep => ~ret_update']_vars

C4_Witness ==
    /\ ~wd.alive_ /\ death = "jump"
    /\ op = "update" /\ ~ret_update
    /\ wd.countdown_ >= 1
    /\ queue # <<>>

(* C5 as stated: read() marks the watchdog dead and returns empty exactly when the *)
(* seqnum or timestamp distance between the packet read and the last packet        *)
(* returned to the caller exceeds the maximum.                                     *)
C5_LastReturned ==
    [][(ReadStep /\ wd.alive_ /\ queue # <<>> /\ last_returned # NULL) =>
           LET next == Head(queue)
               jump == \/ SnExceeds(last_returned.seqnum, next.seqnum,
                                    ROC_CONFIG_MAX_SN_JUMP)
                       \/ TsExceeds(last_returned.timestamp, next.timestamp,
                                    ROC_CONFIG_MAX_TS_JUMP)
           IN  /\ jump => (~wd'.alive_ /\ ret_read' = NULL)
               /\ ~jump => (wd'.alive_ /\ ret_read' = next)]_vars

(* C5, amended: the reference is the returned packet with the latest seqnum in    *)
(* wraparound order (a late or duplicate packet is returned without becoming the  *)
(* reference).  read() marks the watchdog dead and returns empty exactly when the *)
(* seqnum or timestamp distance between the packet read and that reference        *)
(* exceeds the maximum, and returns the packet and stays alive when both are      *)
(* within the maxima; at a timestamp distance of exactly -2^31 (seqnum distance   *)
(* within the maximum) either of the two happens.                                 *)
C5_LatestReturned ==
    [][(ReadStep /\ wd.alive_ /\ queue # <<>>) =>
           LET next == Head(queue)
               sn   == latest # NULL /\ SnExceeds(latest.seqnum, next.seqnum,
                                                  ROC_CONFIG_MAX_SN_JUMP)
               ts   == latest # NULL /\ TsExceeds(latest.timestamp, next.timestamp,
                                                  ROC_CONFIG_MAX_TS_JUMP)
               edge == latest # NULL /\ TsMostNegative(latest.timestamp, next.timestamp)
           IN  /\ (sn \/ (ts /\ ~edge)) => (~wd'.alive_ /\ ret_read' = NULL)
               /\ (~sn /\ ~ts) => (wd'.alive_ /\ ret_read' = next)
               /\ \/ ~wd'.alive_ /\ ret_read' = NULL
                  \/ wd'.alive_ /\ ret_read' = next]_vars

C5_Witness ==
    /\ op = "read" /\ wd.alive_ /\ ret_read # NULL
    /\ latest # NULL /\ ret_read # latest
    /\ SnExceeds(ret_read.seqnum, latest.seqnum, 0)
    /\ ~IsAfter(ret_read.seqnum, latest.seqnum)

----------------------------------------------------------------------------
(* A sender session: constructed with any configuration, then called in any order *)
(* until a call panics, which ends the process.                                   *)

SessionStart ==
    /\ ReceiverIdle
    /\ HeapInit
    /\ PumpInit
    /\ \E config \in Configs : ss = SenderSession(config)
    /\ ss_op = NoCall

Endpoints(name) == {NULL, Endpoint(name)}

CreateTransport ==
    /\ ~ss_op.panic
    /\ ss.calls + ss.control_calls < MaxCalls
    /\ \E source \in Endpoints("source"), repair \in Endpoints("repair"),
          fail \in TransportFailures :
          \E r \in {create_transport_pipeline(ss, source, repair, fail)} :
              /\ ss' = r.self
              /\ ss_op' = Call("create_transport_pipeline",
                               [source |-> source, repair |-> repair], r)
    /\ UNCHANGED <<receiver, passed, heap, pumping>>

CreateControl ==
    /\ ~ss_op.panic
    /\ ss.calls + ss.control_calls < MaxCalls
    /\ \E control \in Endpoints("control"), fail \in ControlFailures :
          \E r \in {create_control_pipeline(ss, control, fail)} :
              /\ ss' = r.self
              /\ ss_op' = Call("create_control_pipeline", [control |-> control], r)
    /\ UNCHANGED <<receiver, passed, heap, pumping>>

GetWriter ==
    /\ ~ss_op.panic
    /\ ss_op' = Call("writer", NULL, Returns(ss, writer(ss)))
    /\ UNCHANGED <<receiver, passed, heap, pumping, ss>>

GetNumSources ==
    /\ ~ss_op.panic
    /\ ss_op' = Call("on_get_num_sources", NULL, Returns(ss, on_get_num_sources(ss)))
    /\ UNCHANGED <<receiver, passed, heap, pumping, ss>>

GetSendingSource ==
    /\ ~ss_op.panic
    /\ \E source_index \in 0..MaxIndex :
          ss_op' = Call("on_get_sending_source", [source_index |-> source_index],
                        on_get_sending_source(ss, source_index))
    /\ UNCHANGED <<receiver, passed, heap, pumping, ss>>

SessionNext ==
    CreateTransport \/ CreateControl \/ GetWriter \/ GetNumSources \/ GetSendingSource

SessionSpec == SessionStart /\ [][SessionNext]_vars

----------------------------------------------------------------------------
(* The heap allocators of a process: instances are constructed, used and       *)
(* destroyed in any order, enable_panic_on_leak() is called at any time, until *)
(* a call panics, which ends the process.                                      *)

HeapStart ==
    /\ ReceiverIdle
    /\ SessionInit
    /\ HeapInit
    /\ PumpInit

Construct ==
    /\ ~ha_op.panic
    /\ \E a \in Allocators :
          /\ ha[a].state = "none"
          /\ ha' = [ha EXCEPT ![a] = [HeapAllocator EXCEPT !.before_enable = ~panic_on_leak_]]
          /\ ha_op' = HeapCall("HeapAllocator", a, FALSE)
    /\ UNCHANGED <<receiver, passed, session, pumping, panic_on_leak_, mt>>

Destroy ==
    /\ ~ha_op.panic
    /\ \E a \in Allocators :
          /\ ha[a].state = "live"
          /\ \E r \in {HeapAllocator_destroy(ha[a], panic_on_leak_)} :
                /\ ha' = [ha EXCEPT ![a] = r.self]
                /\ ha_op' = HeapCall("~HeapAllocator", a, r.panic)
    /\ UNCHANGED <<receiver, passed, session, pumping, panic_on_leak_, mt>>

EnablePanicOnLeak ==
    /\ ~ha_op.panic
    /\ panic_on_leak_' = TRUE
    /\ ha_op' = HeapCall("enable_panic_on_leak", 0, FALSE)
    /\ UNCHANGED <<receiver, passed, session, pumping, ha, mt>>

Allocate ==
    /\ ~ha_op.panic
    /\ \E a \in Allocators :
          /\ ha[a].state = "live"
          /\ ha[a].allocated < MaxAllocations
          /\ \E r \in {HeapAllocator_allocate(ha[a])} :
                /\ ha' = [ha EXCEPT ![a] = r.self]
                /\ ha_op' = HeapCall("allocate", a, r.panic)
    /\ UNCHANGED <<receiver, passed, session, pumping, panic_on_leak_, mt>>

Deallocate ==
    /\ ~ha_op.panic
    /\ \E a \in Allocators :
          /\ ha[a].state = "live"
          /\ \E r \in {HeapAllocator_deallocate(ha[a])} :
                /\ ha' = [ha EXCEPT ![a] = r.self]
                /\ ha_op' = HeapCall("deallocate", a, r.panic)
    /\ UNCHANGED <<receiver, passed, session, pumping, panic_on_leak_, mt>>

HeapNext == Construct \/ Destroy \/ EnablePanicOnLeak \/ Allocate \/ Deallocate

HeapSpec == HeapStart /\ [][HeapNext]_vars

----------------------------------------------------------------------------
(* Threads calling allocate() and deallocate() on one allocator.  A panic    *)
(* aborts the process.                                                       *)

ThreadAllocate(t) ==
    /\ ~mt.panic
    /\ mt.pc[t] = "idle"
    /\ mt.h.allocated < MaxSharedAllocations
    /\ mt' = [mt EXCEPT !.h = HeapAllocator_allocate(mt.h).self]
    /\ UNCHANGED <<receiver, passed, session, pumping, ha, panic_on_leak_, ha_op>>

ThreadDeallocateCheck(t) ==
    /\ ~mt.panic
    /\ mt.pc[t] = "idle"
    /\ mt' = IF deallocate_unpaired(mt.h)
             THEN [mt EXCEPT !.panic = TRUE]
             ELSE [mt EXCEPT !.pc[t] = "checked"]
    /\ UNCHANGED <<receiver, passed, session, pumping, ha, panic_on_leak_, ha_op>>

ThreadDeallocateRelease(t) ==
    /\ ~mt.panic
    /\ mt.pc[t] = "checked"
    /\ mt' = [mt EXCEPT !.h = deallocate_release(mt.h), !.pc[t] = "idle"]
    /\ UNCHANGED <<receiver, passed, session, pumping, ha, panic_on_leak_, ha_op>>

ThreadsNext ==
    \E t \in Threads :
        ThreadAllocate(t) \/ ThreadDeallocateCheck(t) \/ ThreadDeallocateRelease(t)

ThreadsSpec == HeapStart /\ [][ThreadsNext]_vars

----------------------------------------------------------------------------
(* A pump in run(): the loop iterates while stop_ is clear, stop() is called from *)
(* another thread at any time, and run() returns !stop_ once the loop has ended.  *)

PumpStart ==
    /\ ReceiverIdle
    /\ SessionInit
    /\ HeapInit
    /\ \E has_backup \in BOOLEAN, oneshot \in BOOLEAN : pump = Pump(has_backup, oneshot)
    /\ pump_log = <<>>
    /\ pump_io = PumpCounters

Range(log) == {log[i] : i \in 1..Len(log)}

Count(log, call) == Cardinality({i \in 1..Len(log) : log[i].call = call})

(* A loop condition that does not look at stop_. *)
LoopCheck_ignores_stop ==
    /\ pump.pc = "loop"
    /\ pump_io.iterations < MaxIterations
    /\ pump' = [pump EXCEPT !.pc = "body"]
    /\ UNCHANGED <<receiver, passed, session, heap, pump_log, pump_io>>

(* The loop condition: while (!stop_). *)
LoopCheck ==
    /\ pump.pc = "loop"
    /\ IF pump.stop_
       THEN pump' = [pump EXCEPT !.pc = "exit", !.ended_by = "stop"]
       ELSE /\ pump_io.iterations < MaxIterations
            /\ pump' = [pump EXCEPT !.pc = "body"]
    /\ UNCHANGED <<receiver, passed, session, heap, pump_log, pump_io>>

(* The body of the loop; its end, like continue, leads back to the condition. *)
Iterate ==
    /\ pump.pc = "body"
    /\ \E state \in DeviceStates, resume_ok \in BOOLEAN, restart_ok \in BOOLEAN,
          read_ok \in BOOLEAN :
          \E r \in {Pump_run_iteration(pump, state, resume_ok, restart_ok, read_ok)} :
              /\ pump' = IF r.self.pc = "body" THEN [r.self EXCEPT !.pc = "loop"] ELSE r.self
              /\ pump_log' = r.log
              /\ pump_io' =
                     [n_read     |-> pump_io.n_read
                                       + Cardinality({i \in 1..Len(r.log) :
                                                        r.log[i] \in
                                                            {PumpCall("read", "main", "true"),
                                                             PumpCall("read", "backup", "true")}}),
                      n_written  |-> pump_io.n_written + Count(r.log, "write"),
                      n_main_written |->
                          pump_io.n_main_written
                              + (IF PumpCall("read", "main", "true") \in Range(r.log)
                                 THEN Count(r.log, "write") ELSE 0),
                      iterations |-> pump_io.iterations + 1,
                      reads_after_stop |->
                          pump_io.reads_after_stop
                              + (IF pump.stop_ THEN Count(r.log, "read") ELSE 0),
                      writes_after_stop |->
                          pump_io.writes_after_stop
                              + (IF pump.stop_ THEN Count(r.log, "write") ELSE 0),
                      main_paused |->
                          IF PumpCall("pause", "main", "-") \in Range(r.log) THEN TRUE
                          ELSE IF PumpCall("resume", "main", "true") \in Range(r.log) THEN FALSE
                          ELSE pump_io.main_paused]
    /\ UNCHANGED <<receiver, passed, session, heap>>

PumpStop ==
    /\ pump.pc # "done"
    /\ ~pump.stop_
    /\ pump' = Pump_stop(pump)
    /\ UNCHANGED <<receiver, passed, session, heap, pump_log, pump_io>>

(* return !stop_ *)
PumpReturn ==
    /\ pump.pc = "exit"
    /\ pump' = [pump EXCEPT !.pc = "done", !.ret = ~pump.stop_]
    /\ UNCHANGED <<receiver, passed, session, heap, pump_log, pump_io>>

PumpNext == LoopCheck \/ Iterate \/ PumpStop \/ PumpReturn

PumpSpec == PumpStart /\ [][PumpNext]_vars

(* The thread in run() keeps running: every call on a source or the sink returns. *)
FairPumpSpec ==
    PumpSpec /\ WF_vars(LoopCheck) /\ WF_vars(Iterate) /\ WF_vars(PumpReturn)

----------------------------------------------------------------------------
(* Claims about the receive chain. *)

FrameStep == nframes' # nframes

HeldSamples(d) == d.packet_ # NULL /\ d.offset < PacketSamples

Silence(f) == \A i \in 1..Len(f) : is_zero_(f[i].v)

C9_ContinuesSenderSequence ==
    /\ ~rx.failed
    /\ \A i \in 1..Len(frame) :
          ~is_zero_(frame[i].v) => frame[i].stamped /\ frame[i].v = SenderSample(frame[i].ts)
    /\ \A i \in 1..(Len(frame) - 1) :
          (~is_zero_(frame[i].v) /\ ~is_zero_(frame[i + 1].v))
              => frame[i + 1].v = increment_sample_value(frame[i].v)

C9_Witness ==
    /\ nframes >= 2
    /\ ~rx.wait_for_signal
    /\ frame[1].stamped
    /\ is_zero_(frame[1].v)
    /\ ~is_zero_(frame[2].v)
    /\ frame[3].v = increment_sample_value(frame[2].v)
    /\ ~rx.failed

(* C10: the timestamps of the samples emitted by successive read() calls advance by *)
(* exactly one per sample (modulo 2^32): inside a frame, from the cursor the        *)
(* previous read left to the first sample of the next, and the cursor after a read  *)
(* is the cursor before it plus the number of samples emitted, so it never moves    *)
(* backwards, whatever the order, loss or duplication of the input packets.         *)
C10_TimestampsMonotonic ==
    [][FrameStep =>
         /\ \A i \in 1..(Len(frame') - 1) :
               frame'[i].stamped =>
                   /\ frame'[i + 1].stamped
                   /\ frame'[i + 1].ts = TsAdd(frame'[i].ts, 1)
         /\ frame'[Len(frame')].stamped =>
               /\ started(dp')
               /\ dp'.timestamp_ = TsAdd(frame'[Len(frame')].ts, 1)
         /\ started(dp) =>
               /\ started(dp')
               /\ frame'[1].stamped
               /\ frame'[1].ts = dp.timestamp_
               /\ TS_SUBTRACT(dp'.timestamp_, dp.timestamp_) = Len(frame')]_vars

C10_Witness ==
    /\ nframes >= 2
    /\ frame[1].stamped
    /\ frame[1].ts < 0
    /\ dp.timestamp_ > 0
    /\ ~is_zero_(frame[FrameSize].v)
    /\ queue # <<>>
    /\ TS_SUBTRACT(queue[1].timestamp, dp.timestamp_) < 0

----------------------------------------------------------------------------
(* Claims about the sender session. *)

(* The stages a frame passes through from the writer `ref` down to the router. *)
RECURSIVE Downstream(_, _)
Downstream(s, ref) ==
    IF ref = NULL \/ s[ref.field] = NULL
    THEN <<>>
    ELSE <<ref.field>> \o Downstream(s, s[ref.field].to)

Pipeline(s) == Downstream(s, writer(s))

InPipeline(s, field) == \E i \in 1..Len(Pipeline(s)) : Pipeline(s)[i] = field

(* The stage in member `field` was built by the latest create_transport_pipeline call. *)
Built(s, field) == s[field] # NULL /\ s[field].valid /\ s[field].gen = s.calls

Created(s, field) == s[field] # NULL /\ s[field].gen = s.calls

TransportReturned(ret) ==
    /\ ss_op.name = "create_transport_pipeline"
    /\ ~ss_op.panic
    /\ ss_op.ret = ret

(* C12: in a pipeline that create_transport_pipeline has created, the router sends *)
(* packets flagged Audio to the source endpoint only and packets flagged Repair to *)
(* the repair endpoint only; without a repair endpoint the call creates no FEC     *)
(* encoder, FEC writer or interleaver and the source endpoint is the only route;   *)
(* with a repair endpoint the FEC writer is a stage of the pipeline.               *)
C12_RoutesAndFec ==
    TransportReturned(TRUE) =>
        /\ Built(ss, "router_")
        /\ InPipeline(ss, "router_")
        /\ ss_op.arg.repair = NULL =>
              /\ ss.router_.routes = {[flag |-> "FlagAudio", to |-> ss_op.arg.source]}
              /\ \A f \in {"fec_encoder_", "fec_writer_", "interleaver_"} :
                    ~Created(ss, f) /\ ~InPipeline(ss, f)
        /\ ss_op.arg.repair # NULL =>
              /\ ss.router_.routes = {[flag |-> "FlagAudio", to |-> ss_op.arg.source],
                                      [flag |-> "FlagRepair", to |-> ss_op.arg.repair]}
              /\ Built(ss, "fec_writer_")
              /\ InPipeline(ss, "fec_writer_")
              /\ Created(ss, "fec_encoder_")

C12_Witness ==
    /\ TransportReturned(TRUE)
    /\ ss_op.arg.repair # NULL
    /\ ss.config_.interleaving
    /\ InPipeline(ss, "interleaver_")
    /\ InPipeline(ss, "fec_writer_")
    /\ ss.calls = 2

TransportCalled ==
    ss_op'.name = "create_transport_pipeline" /\ (ss'.calls # ss.calls \/ ss_op'.panic)

ControlCalled ==
    /\ ss_op'.name = "create_control_pipeline"
    /\ (ss'.control_calls # ss.control_calls \/ ss_op'.panic)

(* C14: the chain is assembled once.  Once create_transport_pipeline has been    *)
(* entered, a later call panics and leaves every layer as it was; writer(), once *)
(* not NULL, returns the same writer ever after; and once create_control_pipeline *)
(* has been entered, a later call of it panics.                                  *)
C14_AssembledOnce ==
    [][/\ (TransportCalled /\ ss.calls >= 1) => (ss_op'.panic /\ ss' = ss)
       /\ writer(ss) # NULL => writer(ss') = writer(ss)
       /\ (ControlCalled /\ ss.control_calls >= 1) => (ss_op'.panic /\ ss' = ss)]_vars

(* C15: on_get_sending_source(i) panics exactly when i >= on_get_num_sources(), *)
(* in every state of the session; a NULL source endpoint and a NULL control     *)
(* endpoint make the create calls panic.                                        *)
C15_IndexOutOfBoundsPanics ==
    /\ ss_op.name = "on_get_sending_source" =>
          (ss_op.panic <=> ss_op.arg.source_index >= on_get_num_sources(ss))
    /\ (ss_op.name = "create_transport_pipeline" /\ ss_op.arg.source = NULL) => ss_op.panic
    /\ (ss_op.name = "create_control_pipeline" /\ ss_op.arg.control = NULL) => ss_op.panic

(* The stages of a complete pipeline, from the writer handed out down to the router. *)
Required(config, repair) ==
    (IF config.resampling /\ config.rates_differ
     THEN <<"resampler_writer_">>
              \o (IF config.poisoning THEN <<"resampler_poisoner_">> ELSE <<>>)
     ELSE <<>>)
    \o (IF config.masks_differ THEN <<"channel_mapper_writer_">> ELSE <<>>)
    \o <<"packetizer_">>
    \o (IF repair # NULL
        THEN <<"fec_writer_">> \o (IF config.interleaving THEN <<"interleaver_">> ELSE <<>>)
        ELSE <<>>)
    \o <<"router_">>

(* The encoders and the resampler that the stages of a complete pipeline use. *)
RequiredParts(config, repair) ==
    {"payload_encoder_"}
        \cup (IF repair # NULL THEN {"fec_encoder_"} ELSE {})
        \cup (IF config.resampling /\ config.rates_differ THEN {"resampler_"} ELSE {})

(* C16: when a step of the construction fails, create_transport_pipeline returns *)
(* false and writer() stays NULL, whatever part of the chain was built; it       *)
(* returns true only with the payload type known and every stage the             *)
(* configuration requires built by this call, valid, and linked in order from    *)
(* the writer handed out down to the router.                                     *)
C16_NoPartialPipeline ==
    /\ TransportReturned(FALSE) => writer(ss) = NULL
    /\ TransportReturned(TRUE) =>
          /\ ss.config_.payload_known
          /\ writer(ss) # NULL
          /\ Pipeline(ss) = Required(ss.config_, ss_op.arg.repair)
          /\ \A i \in 1..Len(Pipeline(ss)) : Built(ss, Pipeline(ss)[i])
          /\ \A f \in RequiredParts(ss.config_, ss_op.arg.repair) : Built(ss, f)
    /\ writer(ss) # NULL => \A i \in 1..Len(Pipeline(ss)) : Built(ss, Pipeline(ss)[i])

C16_Witness ==
    /\ TransportReturned(FALSE)
    /\ Built(ss, "packetizer_")
    /\ Built(ss, "fec_writer_")
    /\ ss.channel_mapper_writer_ # NULL
    /\ ~ss.channel_mapper_writer_.valid
    /\ writer(ss) = NULL

(* The order of the stages, from the writer handed out down to the router. *)
StageOrder ==
    <<"resampler_writer_", "resampler_poisoner_", "channel_mapper_writer_",
      "packetizer_", "fec_writer_", "interleaver_", "router_">>

Rank(field) == CHOOSE i \in 1..Len(StageOrder) : StageOrder[i] = field

(* The router of the session has a route for repair packets. *)
HasRepairRoute(s) ==
    s.router_ # NULL /\ \E r \in s.router_.routes : r.flag = "FlagRepair"

(* C30: a frame written to writer() passes the stages in a fixed order:        *)
(* resampler (only with resampling enabled and differing rates, and then with  *)
(* a poisoner right below it when poisoning is on), channel mapper (only with  *)
(* differing channel masks), packetizer, FEC writer (only with a repair        *)
(* endpoint), interleaver (only with a repair endpoint and interleaving        *)
(* enabled), router; no stage is skipped or passed twice, and the packetizer   *)
(* and the router are always there.                                            *)
C30_StageOrder ==
    writer(ss) # NULL =>
        /\ \A i \in 1..Len(Pipeline(ss)) :
               /\ \E k \in 1..Len(StageOrder) : StageOrder[k] = Pipeline(ss)[i]
               /\ i > 1 => Rank(Pipeline(ss)[i - 1]) < Rank(Pipeline(ss)[i])
        /\ Pipeline(ss)[1] = writer(ss).field
        /\ Pipeline(ss)[Len(Pipeline(ss))] = "router_"
        /\ InPipeline(ss, "packetizer_")
        /\ InPipeline(ss, "resampler_writer_")
               <=> (ss.config_.resampling /\ ss.config_.rates_differ)
        /\ InPipeline(ss, "resampler_poisoner_")
               <=> (InPipeline(ss, "resampler_writer_") /\ ss.config_.poisoning)
        /\ InPipeline(ss, "channel_mapper_writer_") <=> ss.config_.masks_differ
        /\ InPipeline(ss, "fec_writer_") <=> HasRepairRoute(ss)
        /\ InPipeline(ss, "interleaver_")
               <=> (HasRepairRoute(ss) /\ ss.config_.interleaving)

(* A pipeline with every stage: all seven, each once. *)
C30_Witness ==
    /\ writer(ss) # NULL
    /\ Pipeline(ss) = StageOrder
    /\ ss_op.name = "writer"

----------------------------------------------------------------------------
(* Claims about the heap allocator. *)

(* C17: the counter is the number of outstanding allocations.  On every live   *)
(* instance, after any calls none of which panicked, num_allocations() is the  *)
(* number of allocate() calls minus the number of deallocate() calls that      *)
(* returned, and it is never negative.                                         *)
C17_CounterIsOutstanding ==
    \A a \in Allocators :
        /\ num_allocations(ha[a]) = ha[a].allocated - ha[a].deallocated
        /\ num_allocations(ha[a]) >= 0

C17_Witness ==
    \E a \in Allocators :
        /\ ha[a].state = "live"
        /\ ha[a].allocated = MaxAllocations
        /\ ha[a].deallocated = 1
        /\ ha_op.name = "deallocate"
        /\ ha_op.a = a
        /\ ~ha_op.panic

(* C18: destroying an allocator panics exactly when it has outstanding          *)
(* allocations and enable_panic_on_leak() was called before, whether before or  *)
(* after the instance was constructed; the flag, once set, stays set.           *)
C18_LeakPanicsIffEnabled ==
    [][/\ panic_on_leak_ => panic_on_leak_'
       /\ (~panic_on_leak_ /\ panic_on_leak_') => ha_op'.name = "enable_panic_on_leak"
       /\ ha_op.name = "enable_panic_on_leak" => panic_on_leak_
       /\ \A a \in Allocators :
             (ha_op'.name = "~HeapAllocator" /\ ha_op'.a = a /\ ha[a].state = "live") =>
                 (ha_op'.panic <=>
                      (ha[a].allocated # ha[a].deallocated /\ panic_on_leak_))]_vars

C18_Witness ==
    \E a \in Allocators :
        /\ ha_op.name = "~HeapAllocator"
        /\ ha_op.a = a
        /\ ha_op.panic
        /\ ha[a].before_enable
        /\ \E b \in Allocators : ha[b].state = "destroyed" /\ ha[b].allocated > ha[b].deallocated

(* A step that is a call of deallocate() on instance a. *)
DeallocateStep(a) == ha_op'.name = "deallocate" /\ ha_op'.a = a

(* C31: deallocate() on an allocator without outstanding allocation panics   *)
(* before the counter is decremented and before the memory is freed, so the  *)
(* calls of one thread never bring the counter below zero.                   *)
C31_UnpairedDeallocatePanics ==
    /\ [](\A a \in Allocators : ha[a].num_allocations_ >= 0)
    /\ [][\A a \in Allocators :
             DeallocateStep(a) =>
                 /\ ha_op'.panic <=> num_allocations(ha[a]) <= 0
                 /\ ha_op'.panic => ha'[a] = ha[a]
                 /\ ~ha_op'.panic =>
                        /\ num_allocations(ha'[a]) = num_allocations(ha[a]) - 1
                        /\ ha'[a].deallocated = ha[a].deallocated + 1]_vars

(* Every allocation of an instance was given back, and one more deallocate() *)
(* on it has panicked with the counter at zero.                               *)
C31_Witness ==
    \E a \in Allocators :
        /\ ha_op = HeapCall("deallocate", a, TRUE)
        /\ ha[a].allocated >= 1
        /\ ha[a].deallocated = ha[a].allocated
        /\ num_allocations(ha[a]) = 0

(* C32: under every interleaving of allocate() and deallocate() calls of   *)
(* several threads no update of the counter is lost: with no call in        *)
(* progress num_allocations() is the allocations minus the deallocations;   *)
(* and concurrent deallocate() calls never bring the counter below zero     *)
(* without a panic.                                                         *)
C32_ThreadSafe ==
    /\ (\A t \in Threads : mt.pc[t] = "idle") =>
           num_allocations(mt.h) = mt.h.allocated - mt.h.deallocated
    /\ num_allocations(mt.h) >= 0 \/ mt.panic

(* What holds of the counter when each access to it is atomic: no update of *)
(* it is lost, and every thread but one can bring it one below zero.        *)
CounterUpdatesKept ==
    /\ num_allocations(mt.h) = mt.h.allocated - mt.h.deallocated
    /\ num_allocations(mt.h) >= 1 - MaxThreads

----------------------------------------------------------------------------
(* Claims about the pump. *)

(* The positions of the calls of one name in the log of an iteration. *)
Calls(log, call) == {i \in 1..Len(log) : log[i].call = call}

SuccessfulReads(log) == {i \in Calls(log, "read") : log[i].ret = "true"}

(* The source the iteration read from, and "none" when it made no read. *)
ReadFrom(log) ==
    IF Calls(log, "read") = {} THEN "none"
    ELSE Only({log[i].on : i \in Calls(log, "read")})

IterateStep == pump_io'.iterations = pump_io.iterations + 1

(* C19: every frame successfully read from the current source is written to the *)
(* sink exactly once, in read order, and is followed by one reclock() on the     *)
(* source it was read from before the next read; an iteration whose read()       *)
(* returned false calls neither sink.write() nor reclock().                      *)
C19_ReadWriteReclock ==
    /\ Cardinality(Calls(pump_log, "read")) <= 1
    /\ \A i \in SuccessfulReads(pump_log) :
           /\ Len(pump_log) = i + 2
           /\ pump_log[i + 1] = PumpCall("write", "sink", "-")
           /\ pump_log[i + 2] = PumpCall("reclock", pump_log[i].on, "-")
           /\ pump_log[i].on = pump.current_source
    /\ Cardinality(Calls(pump_log, "write")) = Cardinality(SuccessfulReads(pump_log))
    /\ Cardinality(Calls(pump_log, "reclock")) = Cardinality(SuccessfulReads(pump_log))
    /\ pump_io.n_written = pump_io.n_read

(* Frames were written from both sources, the last one from the backup. *)
C19_Witness ==
    /\ pump_io.n_written >= 2
    /\ pump.n_bufs_ >= 1
    /\ \E i \in SuccessfulReads(pump_log) : pump_log[i].on = "backup"

(* The failover calls of an iteration that observed main Active while the *)
(* current source was the backup.                                         *)
ResumesMain(log) ==
    /\ Len(log) >= 2
    /\ log[2].call = "resume" /\ log[2].on = "main"
    /\ IF log[2].ret = "true"
       THEN /\ Len(log) >= 3
            /\ log[3] = PumpCall("pause", "backup", "-")
            /\ ReadFrom(log) = "main"
       ELSE /\ Calls(log, "pause") = {}
            /\ ReadFrom(log) = "backup"
    /\ Calls(log, "restart") = {}

(* The failover calls of an iteration that observed main not Active while a *)
(* backup exists and the current source was not the backup.                 *)
RestartsBackup(log) ==
    /\ Len(log) >= 2
    /\ log[2].call = "restart" /\ log[2].on = "backup"
    /\ IF log[2].ret = "true"
       THEN /\ Len(log) >= 3
            /\ log[3] = PumpCall("pause", "main", "-")
            /\ ReadFrom(log) = "backup"
       ELSE /\ Calls(log, "pause") = {}
            /\ ReadFrom(log) = "main"
    /\ Calls(log, "resume") = {}

(* An iteration without failover call reads, if it reads, from the source it *)
(* started with.                                                              *)
NoFailover(log, current) ==
    /\ Calls(log, "resume") = {} /\ Calls(log, "restart") = {} /\ Calls(log, "pause") = {}
    /\ ReadFrom(log) \in {current, "none"}

(* A frame is read from the backup only when main was observed not Active or *)
(* main.resume() failed.                                                      *)
BackupReadJustified(log) ==
    ReadFrom(log) = "backup" =>
        \/ log[1].ret # "Active"
        \/ \E i \in Calls(log, "resume") : log[i].ret = "false"

(* C20 as stated: an iteration that observes main Active with the backup      *)
(* current calls main.resume(); one that observes main not Active with a      *)
(* backup present and not current calls backup.restart(); the switch and the  *)
(* pause of the other source follow only a success.                           *)
C20_FailoverAsStated ==
    [][IterateStep =>
        /\ pump_log'[1].call = "state" /\ pump_log'[1].on = "main"
        /\ IF pump_log'[1].ret = "Active" /\ pump.current_source = "backup"
           THEN ResumesMain(pump_log')
           ELSE IF pump_log'[1].ret # "Active" /\ pump.backup_source_
                   /\ pump.current_source # "backup"
           THEN RestartsBackup(pump_log')
           ELSE NoFailover(pump_log', pump.current_source)
        /\ BackupReadJustified(pump_log')]_vars

(* The loop ends before the failover: main is not Active, the pump is oneshot *)
(* and has already passed a frame of main.                                    *)
OneshotEnds(log) ==
    /\ Len(log) = 1
    /\ pump'.pc = "exit"
    /\ pump'.current_source = pump.current_source

(* C20: the same, except that an iteration of a oneshot pump that observes    *)
(* main not Active after a frame of main was passed ends the loop without     *)
(* any call on the backup.                                                     *)
C20_Failover ==
    [][IterateStep =>
        /\ pump_log'[1].call = "state" /\ pump_log'[1].on = "main"
        /\ IF pump_log'[1].ret = "Active" /\ pump.current_source = "backup"
           THEN ResumesMain(pump_log')
           ELSE IF pump_log'[1].ret # "Active" /\ pump.oneshot_ /\ pump.n_bufs_ # 0
           THEN OneshotEnds(pump_log')
           ELSE IF pump_log'[1].ret # "Active" /\ pump.backup_source_
                   /\ pump.current_source # "backup"
           THEN RestartsBackup(pump_log')
           ELSE NoFailover(pump_log', pump.current_source)
        /\ BackupReadJustified(pump_log')]_vars

(* A oneshot pump with a backup went over to the backup, came back to main on *)
(* a successful resume(), passed a frame of main and then ended its loop on    *)
(* seeing main not Active, with no call on the backup.                         *)
C20_Witness ==
    /\ pump.oneshot_ /\ pump.backup_source_
    /\ pump.pc = "exit"
    /\ pump.current_source = "main"
    /\ pump.n_bufs_ = 1
    /\ pump_io.n_read = 2
    /\ Len(pump_log) = 1
    /\ pump_log[1].ret # "Active"

(* C21: run() returns false if and only if its loop was ended by stop(); a loop *)
(* ended by an EOF of the main source or by oneshot inactivity makes it return  *)
(* true, wherever a stop() of another thread falls.                             *)
C21_FalseIffStopped ==
    pump.pc = "done" =>
        /\ (pump.ret = FALSE) <=> (pump.ended_by = "stop")
        /\ pump.ended_by \in {"eof", "oneshot"} => pump.ret = TRUE

(* What the code gives: run() returns false exactly when stop() was called *)
(* before the return statement read stop_, whatever ended the loop.         *)
ReturnsFalseIffStopRequested ==
    pump.pc = "done" =>
        /\ (pump.ret = FALSE) <=> pump.stop_
        /\ pump.ended_by = "stop" => pump.ret = FALSE

(* run() has returned false from a loop that an EOF of the main source ended. *)
ReturnedFalseAfterEof ==
    /\ pump.pc = "done"
    /\ pump.ended_by = "eof"
    /\ pump.ret = FALSE

(* C22: once stop() has been called, run() returns; it completes at most the   *)
(* iteration in progress, with at most one more read and one more write, and   *)
(* starts no other, also when that iteration ends with an EOF of the backup.   *)
C22_StopTerminates ==
    /\ pump.stop_ ~> (pump.pc = "done")
    /\ [](pump_io.reads_after_stop <= 1 /\ pump_io.writes_after_stop <= 1)
    /\ [][pump.stop_ /\ pump.pc = "loop" => pump'.pc # "body"]_vars

(* stop() fell into an iteration that ended with an EOF of the backup, and *)
(* run() has returned after it.                                            *)
C22_Witness ==
    /\ pump.pc = "done"
    /\ pump.stop_
    /\ pump.ended_by = "stop"
    /\ pump_io.reads_after_stop = 1
    /\ PumpCall("read", "backup", "false") \in Range(pump_log)

(* C23: a oneshot pump leaves the loop, without a further read, at the first   *)
(* iteration that observes main not Active after a frame of main was written;  *)
(* n_bufs_ counts the frames of main only, so frames of the backup do not make *)
(* it leave, and a continuous pump never leaves the loop this way.             *)
C23_OneshotExit ==
    /\ [](pump.n_bufs_ = pump_io.n_main_written)
    /\ [][IterateStep =>
            /\ (pump'.ended_by = "oneshot")
                   <=> /\ pump.oneshot_
                       /\ pump_io.n_main_written >= 1
                       /\ pump_log'[1].ret # "Active"
            /\ pump'.ended_by = "oneshot" =>
                   /\ pump'.pc = "exit"
                   /\ Calls(pump_log', "read") = {}
                   /\ pump_io'.n_read = pump_io.n_read]_vars

(* A oneshot pump wrote two frames of the backup, seeing main not Active after *)
(* the first, then one frame of main, and left the loop when main was seen     *)
(* not Active again.                                                           *)
C23_Witness ==
    /\ pump.oneshot_
    /\ pump.ended_by = "oneshot"
    /\ pump_io.n_written = 3
    /\ pump_io.n_main_written = 1
    /\ pump_io.iterations = 4

(* C24: a failed read of main ends the loop; a failed read of the backup does  *)
(* not: the current source becomes main, nothing is written and the loop goes  *)
(* on. An iteration writes one frame, or ends the loop, or is an EOF of the    *)
(* backup, so a backup that restarts and always returns EOF keeps the loop     *)
(* running without a write.                                                    *)
C24_EofHandling ==
    [][IterateStep =>
        /\ PumpCall("read", "main", "false") \in Range(pump_log') =>
               pump'.pc = "exit" /\ pump'.ended_by = "eof"
        /\ PumpCall("read", "backup", "false") \in Range(pump_log') =>
               /\ pump'.pc = "loop"
               /\ pump'.current_source = "main"
               /\ Calls(pump_log', "write") = {}
        /\ Cardinality({k \in 1..3 :
                           \/ k = 1 /\ Cardinality(Calls(pump_log', "write")) = 1
                           \/ k = 2 /\ pump'.pc = "exit"
                           \/ k = 3 /\ PumpCall("read", "backup", "false")
                                           \in Range(pump_log')}) = 1]_vars

(* Three iterations in a row restarted the backup and got its EOF: the loop is *)
(* still running and nothing was written.                                      *)
C24_Witness ==
    /\ pump_io.iterations = 3
    /\ pump_io.n_written = 0
    /\ pump.pc = "loop"
    /\ PumpCall("restart", "backup", "true") \in Range(pump_log)
    /\ PumpCall("read", "backup", "false") \in Range(pump_log)

(* C25: the pump never reads from a main source it has paused: a pause() of    *)
(* main is followed by a successful resume() of main before the next read() of *)
(* main.                                                                       *)
C25_NoReadWhilePaused ==
    [][IterateStep /\ ReadFrom(pump_log') = "main" =>
          \/ ~pump_io.main_paused
          \/ PumpCall("resume", "main", "true") \in Range(pump_log')]_vars

----------------------------------------------------------------------------
(* Further claims about the watchdog. *)

(* C26: always 0 <= countdown <= timeout; with timeout >= 1 the watchdog is    *)
(* alive only while the countdown is >= 1, and a countdown brought to 0 by a   *)
(* decrement comes with death. With timeout 0 an update() of a live watchdog   *)
(* is survived exactly when a read() returned a packet since the update()      *)
(* before it.                                                                  *)
C26_CountdownInvariant ==
    /\ [](0 <= wd.countdown_ /\ wd.countdown_ <= wd.timeout_)
    /\ []((wd.alive_ /\ wd.timeout_ >= 1) => wd.countdown_ >= 1)
    /\ [][(UpdateStep /\ wd.alive_ /\ wd.countdown_ > 0 /\ wd'.countdown_ = 0) =>
             (~wd'.alive_ /\ ~ret_update')]_vars
    /\ [][(UpdateStep /\ wd.alive_ /\ wd.timeout_ = 0) =>
             /\ wd'.alive_ <=> observed
             /\ wd'.alive_ <=> wd.has_packets_
             /\ ret_update' <=> wd'.alive_]_vars

(* A watchdog with timeout 0 has survived an update() that followed a read() *)
(* of a packet.                                                              *)
C26_Witness ==
    /\ wd.timeout_ = 0
    /\ op = "update" /\ ret_update /\ wd.alive_
    /\ last_returned # NULL
    /\ wd.countdown_ = 0

(* C27: read() on a dead watchdog does not call the underlying reader, and     *)
(* update() on a dead watchdog changes neither the countdown nor the           *)
(* packets-seen flag; a read() on a live watchdog pulls at most one packet,    *)
(* and a packet that triggers a jump is consumed, not returned and not counted *)
(* as observed.                                                                *)
C27_DeadChangesNothing ==
    /\ [][(~wd.alive_ /\ ReadStep) => (queue' = queue /\ wd' = wd)]_vars
    /\ [][(~wd.alive_ /\ UpdateStep) =>
             /\ wd'.countdown_ = wd.countdown_
             /\ wd'.has_packets_ = wd.has_packets_
             /\ wd' = wd
             /\ queue' = queue]_vars
    /\ [][(wd.alive_ /\ ReadStep) =>
             /\ queue' = reader_rest(queue)
             /\ (queue # <<>> /\ ~wd'.alive_) =>
                    /\ death' = "jump"
                    /\ ret_read' = NULL
                    /\ wd'.has_packets_ = wd.has_packets_
                    /\ observed' = observed
                    /\ wd'.prev_ = wd.prev_]_vars

(* A packet that triggered a jump was consumed while another stayed buffered, *)
(* and no packet counts as observed.                                           *)
C27_Witness ==
    /\ op = "read" /\ ret_read = NULL
    /\ ~wd.alive_ /\ death = "jump"
    /\ ~wd.has_packets_ /\ ~observed
    /\ queue # <<>>
    /\ last_returned # NULL

(* The packet read is within the jump maxima of the reference. *)
WithinLimits(prev, next) ==
    /\ ~SnExceeds(prev.seqnum, next.seqnum, ROC_CONFIG_MAX_SN_JUMP)
    /\ ~TsExceeds(prev.timestamp, next.timestamp, ROC_CONFIG_MAX_TS_JUMP)

(* C28: the reference packet only moves forward in wraparound order: the first *)
(* packet read is accepted and becomes the reference; a later packet replaces  *)
(* it only if its seqnum is after the reference's; a late or duplicate packet  *)
(* within the jump maxima is returned and counts as observed, and leaves the   *)
(* reference as it is.                                                         *)
C28_ReferenceMovesForward ==
    /\ [][(ReadStep /\ wd.alive_ /\ queue # <<>>) =>
             LET next == Head(queue)
             IN  /\ wd.prev_ = NULL =>
                        (ret_read' = next /\ wd'.prev_ = next /\ wd'.alive_)
                 /\ (wd.prev_ # NULL /\ wd'.prev_ # wd.prev_) =>
                        /\ wd'.prev_ = next
                        /\ IsAfter(next.seqnum, wd.prev_.seqnum)
                        /\ ret_read' = next
                 /\ (wd.prev_ # NULL /\ ~IsAfter(next.seqnum, wd.prev_.seqnum)
                        /\ WithinLimits(wd.prev_, next)) =>
                        /\ ret_read' = next
                        /\ wd'.has_packets_ /\ observed'
                        /\ wd'.alive_
                        /\ wd'.prev_ = wd.prev_]_vars
    /\ [][~(ReadStep /\ wd.alive_ /\ queue # <<>>) => wd'.prev_ = wd.prev_]_vars

(* A late packet was returned and the reference stayed ahead of it. *)
C28_Witness ==
    /\ op = "read" /\ ret_read # NULL
    /\ wd.alive_ /\ wd.has_packets_
    /\ wd.prev_ # NULL /\ wd.prev_ # ret_read
    /\ IsAfter(wd.prev_.seqnum, ret_read.seqnum)

(* C29: a live watchdog is a transparent filter over its reader: the packets   *)
(* read() returned are the packets the reader delivered, in order and as they  *)
(* were, up to and excluding the first packet that triggers a jump, and a      *)
(* read() that leaves the watchdog alive returns empty only when the reader    *)
(* returned empty.                                                             *)
C29_TransparentFilter ==
    /\ [](wd.alive_ => returned = delivered)
    /\ [](death = "timeout" => returned = delivered)
    /\ [](death = "jump" =>
             /\ Len(delivered) = Len(returned) + 1
             /\ returned = SubSeq(delivered, 1, Len(returned)))
    /\ [][(ReadStep /\ wd'.alive_ /\ ret_read' = NULL) => reader_read(queue) = NULL]_vars

(* Two packets passed through, one of them late, and the third triggered a jump. *)
C29_Witness ==
    /\ death = "jump"
    /\ Len(delivered) = 3
    /\ Len(returned) = 2
    /\ IsAfter(returned[1].seqnum, returned[2].seqnum)

====
